---- MODULE Spec2Model ----
(***************************************************************************)
(* Spider-Tracker: the polling monitor (src/unnamed/part_001).             *)
(*                                                                         *)
(* Strings are sequences of UTF-16 code units (naturals), so that          *)
(* toLowerCase, includes, sort and join are computed as JavaScript         *)
(* computes them.  A falsy string value (undefined, null, '') is the empty *)
(* sequence: the code only ever tests such values for truthiness.          *)
(***************************************************************************)
EXTENDS Integers, Sequences, FiniteSets, TLC

VARIABLES config, phoneCallMade, cyc, started, fn

vars == <<config, phoneCallMade, cyc, started, fn>>

----------------------------------------------------------------------------
(* Bounds of the model *)

\* number of monitor cycles (timer ticks) of one behaviour
MaxCycles == 2
\* number of cycles that may be awaiting I/O at the same time
MaxInFlight == 2
\* longest keyword-set configuration given to the matcher on its own
MaxSets == 2
\* longest list of names given to the matcher on its own
MaxNames == 2
\* longest list of movie records given to the film-info resolver on its own
MaxMovies == 2

----------------------------------------------------------------------------
(* Strings *)

Null == <<>>

Range(s) == {s[i] : i \in DOMAIN s}

\* String.prototype.toLowerCase on the ASCII letters
toLowerCase(s) == [i \in DOMAIN s |-> IF s[i] \in 65..90 THEN s[i] + 32 ELSE s[i]]

\* String.prototype.includes
includes(s, sub) ==
  \E i \in 0..(Len(s) - Len(sub)) : SubSeq(s, i + 1, i + Len(sub)) = sub

\* the order of Array.prototype.sort without comparator: by code units
StrLess(a, b) ==
  \E i \in 1..(Len(a) + 1) :
     /\ i <= Len(b)
     /\ \A j \in 1..(i - 1) : a[j] = b[j]
     /\ (i = Len(a) + 1 \/ a[i] < b[i])

RECURSIVE Insert(_, _)
Insert(x, s) ==
  IF s = <<>> THEN <<x>>
  ELSE IF StrLess(x, Head(s)) THEN <<x>> \o s
  ELSE <<Head(s)>> \o Insert(x, Tail(s))

\* Array.prototype.sort() on an array of strings
RECURSIVE sort(_)
sort(s) == IF s = <<>> THEN <<>> ELSE Insert(Head(s), sort(Tail(s)))

\* Array.prototype.join
RECURSIVE join(_, _)
join(s, sep) ==
  IF s = <<>> THEN <<>>
  ELSE IF Len(s) = 1 THEN s[1]
  ELSE s[1] \o sep \o join(Tail(s), sep)

\* the elements of s in order, each kept at its first occurrence (Set / Map keys)
RECURSIVE Distinct(_)
Distinct(s) ==
  IF s = <<>> THEN <<>>
  ELSE LET front == Distinct(SubSeq(s, 1, Len(s) - 1))
           last == s[Len(s)]
       IN IF last \in Range(front) THEN front ELSE Append(front, last)

RECURSIVE Flatten(_)
Flatten(ss) == IF ss = <<>> THEN <<>> ELSE Head(ss) \o Flatten(Tail(ss))

----------------------------------------------------------------------------
(* Entity extraction and keyword matching *)

getMovies_Unchecked(responseData) == responseData.mv

\* getMovies: the nested list when it is a list, else the empty list
getMovies(responseData) ==
  IF responseData.mvIsArray THEN responseData.mv ELSE <<>>

\* getAllFilmNames reads movie.filmName and film.filmName without a guard: a
\* null movie record, or a null film record of a movie, raises a TypeError
getAllFilmNamesThrows(movies) ==
  \E i \in DOMAIN movies :
     \/ movies[i].isNull
     \/ \E j \in DOMAIN movies[i].films : movies[i].films[j].isNull

\* getAllFilmNames: movie names and nested film names, each once
getAllFilmNames(movies) ==
  Distinct(Flatten([i \in DOMAIN movies |->
      (IF movies[i].filmName # Null THEN <<movies[i].filmName>> ELSE <<>>)
      \o SelectSeq([j \in DOMAIN movies[i].films |-> movies[i].films[j].filmName],
                LAMBDA n : n # Null)]))

\* the test of one name against one keyword list (keywordSet.every(...))
allKeywordsFound(kws, name) ==
  \A k \in DOMAIN kws : includes(toLowerCase(name), toLowerCase(kws[k]))

checkKeywordSet_NoEmptyGuard(keywordSet, filmNames) ==
  SelectSeq(filmNames, LAMBDA n : allKeywordsFound(keywordSet.kws, n))

\* checkKeywordSet
checkKeywordSet(keywordSet, filmNames) ==
  IF ~keywordSet.isArray \/ keywordSet.kws = <<>> THEN <<>>
  ELSE SelectSeq(filmNames, LAMBDA n : allKeywordsFound(keywordSet.kws, n))

checkKeywordSets_KeepAll(keywordSets, filmNames) ==
  IF ~keywordSets.isArray \/ keywordSets.sets = <<>> THEN <<>>
  ELSE [i \in DOMAIN keywordSets.sets |->
          [keywordSet |-> keywordSets.sets[i],
           matchingFilms |-> checkKeywordSet(keywordSets.sets[i], filmNames),
           setIndex |-> i - 1]]

\* checkKeywordSets: setIndex is the 0-based index of the set
checkKeywordSets(keywordSets, filmNames) ==
  IF ~keywordSets.isArray \/ keywordSets.sets = <<>> THEN <<>>
  ELSE SelectSeq([i \in DOMAIN keywordSets.sets |->
                 [keywordSet |-> keywordSets.sets[i],
                  matchingFilms |-> checkKeywordSet(keywordSets.sets[i], filmNames),
                  setIndex |-> i - 1]],
              LAMBDA m : Len(m.matchingFilms) > 0)

----------------------------------------------------------------------------
(* Film info resolution *)

\* String(n) for a natural number
RECURSIVE NatStr(_)
NatStr(n) == IF n < 10 THEN <<48 + n>> ELSE NatStr(n \div 10) \o <<48 + (n % 10)>>

\* String.prototype.padStart(2, '0')
padStart2(s) == IF Len(s) < 2 THEN <<48>> \o s ELSE s

\* formatDateFromParts
formatDateFromParts(year, month, day) ==
  NatStr(year) \o <<45>> \o padStart2(NatStr(month)) \o <<45>> \o padStart2(NatStr(day))

\* a || b on strings
Or(a, b) == IF a # Null THEN a ELSE b

\* movie.releaseDate || (year && month && day ? formatDateFromParts(...) : null)
movieLevelDate(movie) ==
  Or(movie.releaseDate,
     IF movie.year # 0 /\ movie.month # 0 /\ movie.day # 0
     THEN formatDateFromParts(movie.year, movie.month, movie.day)
     ELSE Null)

movieOccurrences_MovieDateFirst(movie, matchingFilms) ==
  LET films == movie.films
      byMovie == IF movie.filmName # Null /\ movie.filmName \in Range(matchingFilms)
                 THEN SelectSeq(films, LAMBDA f : f.filmCommonCode # Null)
                 ELSE <<>>
      byFilm == SelectSeq(films, LAMBDA f : /\ f.filmName # Null
                                            /\ f.filmName \in Range(matchingFilms)
                                            /\ f.filmCommonCode # Null)
      pair(f) == [code |-> f.filmCommonCode,
                  releaseDate |-> Or(movieLevelDate(movie), f.releaseDate)]
  IN [i \in DOMAIN byMovie |-> pair(byMovie[i])] \o [i \in DOMAIN byFilm |-> pair(byFilm[i])]

\* the (code, date) pairs one movie record offers to the map, in traversal order:
\* first those of the movie-name branch, then those of the films branch
movieOccurrences(movie, matchingFilms) ==
  LET films == movie.films
      byMovie == IF movie.filmName # Null /\ movie.filmName \in Range(matchingFilms)
                 THEN SelectSeq(films, LAMBDA f : f.filmCommonCode # Null)
                 ELSE <<>>
      byFilm == SelectSeq(films, LAMBDA f : /\ f.filmName # Null
                                            /\ f.filmName \in Range(matchingFilms)
                                            /\ f.filmCommonCode # Null)
      pair(f) == [code |-> f.filmCommonCode,
                  releaseDate |-> Or(f.releaseDate, movieLevelDate(movie))]
  IN [i \in DOMAIN byMovie |-> pair(byMovie[i])] \o [i \in DOMAIN byFilm |-> pair(byFilm[i])]

mapSet_LastWins(map, occ) ==
  IF \A i \in DOMAIN map : map[i].code # occ.code THEN Append(map, occ)
  ELSE [i \in DOMAIN map |-> IF map[i].code = occ.code THEN occ ELSE map[i]]

\* if (!map.has(code) || !map.get(code)) map.set(code, date)
mapSet(map, occ) ==
  IF \A i \in DOMAIN map : map[i].code # occ.code THEN Append(map, occ)
  ELSE [i \in DOMAIN map |->
          IF map[i].code = occ.code /\ map[i].releaseDate = Null THEN occ ELSE map[i]]

RECURSIVE foldOccurrences(_, _)
foldOccurrences(map, occs) ==
  IF occs = <<>> THEN map ELSE foldOccurrences(mapSet(map, Head(occs)), Tail(occs))

\* extractFilmInfo: the entries of the map in insertion order
extractFilmInfo(movies, matchingFilms) ==
  foldOccurrences(<<>>, Flatten([i \in DOMAIN movies |->
                                    movieOccurrences(movies[i], matchingFilms)]))

----------------------------------------------------------------------------
(* Release-date normalisation and the date of the theatre lookup *)

IsDigit(ch) == ch \in 48..57

AllDigits(s) == \A i \in DOMAIN s : IsDigit(s[i])

\* the number a string of decimal digits denotes
RECURSIVE Num(_)
Num(s) == IF s = <<>> THEN 0 ELSE 10 * Num(SubSeq(s, 1, Len(s) - 1)) + (s[Len(s)] - 48)

\* /^\d{4}-\d{2}-\d{2}$/.test(s)
IsCanonical(s) ==
  /\ Len(s) = 10
  /\ s[5] = 45 /\ s[8] = 45
  /\ AllDigits(SubSeq(s, 1, 4)) /\ AllDigits(SubSeq(s, 6, 7)) /\ AllDigits(SubSeq(s, 9, 10))

\* the keys of the months table, in the order of their values '01' .. '12'
months ==
  << <<74, 97, 110>>, <<70, 101, 98>>, <<77, 97, 114>>, <<65, 112, 114>>,
     <<77, 97, 121>>, <<74, 117, 110>>, <<74, 117, 108>>, <<65, 117, 103>>,
     <<83, 101, 112>>, <<79, 99, 116>>, <<78, 111, 118>>, <<68, 101, 99>> >>

\* the position of a name in the months table, 0 when it is no key
MonthIndex(name) ==
  IF \E i \in DOMAIN months : months[i] = name
  THEN CHOOSE i \in DOMAIN months : months[i] = name
  ELSE 0

\* /(\w+)\s+(\d+),\s+(\d+)/ on a string made of a word, a space, digits, a comma, a
\* space and digits: the three groups, or no match
NamedParts(s) ==
  LET sp == {i \in DOMAIN s : s[i] = 32}
      cm == {i \in DOMAIN s : s[i] = 44}
      noMatch == [ok |-> FALSE, monthName |-> <<>>, day |-> <<>>, year |-> <<>>]
  IN IF Cardinality(sp) # 2 \/ Cardinality(cm) # 1 THEN noMatch
     ELSE LET p == CHOOSE i \in sp : \A j \in sp : i <= j
              q == CHOOSE i \in sp : \A j \in sp : j <= i
              c == CHOOSE i \in cm : TRUE
              word == SubSeq(s, 1, p - 1)
              day == SubSeq(s, p + 1, c - 1)
              year == SubSeq(s, q + 1, Len(s))
          IN IF /\ q = c + 1
                /\ word # <<>> /\ day # <<>> /\ year # <<>>
                /\ \A i \in DOMAIN word : word[i] \in (65..90) \cup (97..122)
                /\ AllDigits(day) /\ AllDigits(year)
             THEN [ok |-> TRUE, monthName |-> word, day |-> day, year |-> year]
             ELSE noMatch

\* the catch branch of convertReleaseDateToAPIFormat: the "Nov 14, 2025" form read
\* with the months table
monthTableFallback(releaseDateStr) ==
  LET match == NamedParts(releaseDateStr)
      month == IF match.ok THEN MonthIndex(SubSeq(match.monthName, 1, 3)) ELSE 0
  IN IF match.ok /\ month # 0
     THEN match.year \o <<45>> \o padStart2(NatStr(month)) \o <<45>> \o padStart2(match.day)
     ELSE Null

InvalidDate == [kind |-> "invalid", year |-> 0, month |-> 0, day |-> 0]

ValidDate(y, m, d) == [kind |-> "valid", year |-> y, month |-> m, day |-> d]

DaysIn(y, m) ==
  IF m = 2 THEN (IF y % 4 = 0 /\ (y % 100 # 0 \/ y % 400 = 0) THEN 29 ELSE 28)
  ELSE IF m \in {4, 6, 9, 11} THEN 30 ELSE 31

\* new Date(s) on the strings "Mon D, YYYY": the local day.  A day beyond 31, or 0,
\* is no date; a day up to 31 beyond the month's end is, by the runtime's own rules,
\* no date or a day of the next month.
NewDateNamed(s) ==
  LET match == NamedParts(s)
      m == MonthIndex(match.monthName)
      d == Num(match.day)
      y == Num(match.year)
  IN IF ~(m # 0 /\ Len(match.year) = 4 /\ Len(match.day) <= 2 /\ d \in 1..31)
     THEN {InvalidDate}
     ELSE IF d <= DaysIn(y, m) THEN {ValidDate(y, m, d)}
     ELSE IF m = 12 THEN {InvalidDate, ValidDate(y + 1, 1, d - DaysIn(y, m))}
     ELSE {InvalidDate, ValidDate(y, m + 1, d - DaysIn(y, m))}

\* s is a date-time "YYYY-MM-DDTHH:mm:ss" of the ECMAScript date-time string format
IsLocalDateTime(s) ==
  /\ Len(s) = 19
  /\ IsCanonical(SubSeq(s, 1, 10))
  /\ s[11] = 84 /\ s[14] = 58 /\ s[17] = 58
  /\ AllDigits(SubSeq(s, 12, 13)) /\ AllDigits(SubSeq(s, 15, 16))
  /\ AllDigits(SubSeq(s, 18, 19))

\* s is "YY-MM-DD"
IsShortYearDate(s) ==
  /\ Len(s) = 8
  /\ s[3] = 45 /\ s[6] = 45
  /\ AllDigits(SubSeq(s, 1, 2)) /\ AllDigits(SubSeq(s, 4, 5)) /\ AllDigits(SubSeq(s, 7, 8))

\* new Date(s) followed by getFullYear / getMonth + 1 / getDate, on the strings of
\* the model: what the runtime may answer.  The date-time string format is read as
\* local time, with the year as written.  Other strings are read by the runtime's own
\* rules: "YY-MM-DD" is either no date or a date of the century the runtime assigns
\* to a two-digit year.  new Date(s) does not throw.  (The answer for a string of the
\* YYYY-MM-DD form is never looked at: such a string is returned before.)
NewDate(s) ==
  IF NamedParts(s).ok THEN NewDateNamed(s)
  ELSE IF IsLocalDateTime(s)
  THEN LET y == Num(SubSeq(s, 1, 4))
           m == Num(SubSeq(s, 6, 7))
           d == Num(SubSeq(s, 9, 10))
       IN IF m \in 1..12 /\ d \in 1..DaysIn(y, m) /\ Num(SubSeq(s, 12, 13)) \in 0..23
          THEN {ValidDate(y, m, d)} ELSE {InvalidDate}
  ELSE IF IsShortYearDate(s)
  THEN LET yy == Num(SubSeq(s, 1, 2))
           y == IF yy < 50 THEN 2000 + yy ELSE 1900 + yy
           m == Num(SubSeq(s, 4, 5))
           d == Num(SubSeq(s, 7, 8))
       IN IF m \in 1..12 /\ d \in 1..DaysIn(y, m)
          THEN {InvalidDate, ValidDate(y, m, d)} ELSE {InvalidDate}
  ELSE {InvalidDate}

\* convertReleaseDateToAPIFormat; date is what new Date(releaseDateStr) gave.  The
\* year is printed as it is, month and day are padded to two digits.
convertReleaseDateToAPIFormat(releaseDateStr, date) ==
  IF releaseDateStr = Null THEN Null
  ELSE IF IsCanonical(releaseDateStr) THEN releaseDateStr
  ELSE IF date.kind = "throws" THEN monthTableFallback(releaseDateStr)
  ELSE IF date.kind = "valid"
  THEN NatStr(date.year) \o <<45>> \o padStart2(NatStr(date.month))
         \o <<45>> \o padStart2(NatStr(date.day))
  ELSE Null

\* fetchTheaterListings: today's date in YYYY-MM-DD form
todayFormatted(today) ==
  NatStr(today.year) \o <<45>> \o padStart2(NatStr(today.month))
    \o <<45>> \o padStart2(NatStr(today.day))

theaterListingsRequest_NoFallback(filmCommonCode, releaseDate, date, today) ==
  [mid |-> filmCommonCode,
   dated |-> IF releaseDate # Null THEN convertReleaseDateToAPIFormat(releaseDate, date)
             ELSE Null]

theaterListingsRequest_ReleaseDateFirst(filmCommonCode, releaseDate, date, today) ==
  LET releaseDateFormatted ==
        IF releaseDate # Null THEN convertReleaseDateToAPIFormat(releaseDate, date)
        ELSE Null
  IN [mid |-> filmCommonCode,
      dated |-> IF releaseDateFormatted # Null THEN releaseDateFormatted
                ELSE todayFormatted(today)]

\* fetchTheaterListings up to its await: mid and dated of the request body; the two
\* dates are compared as strings (todayFormatted > releaseDateFormatted)
theaterListingsRequest(filmCommonCode, releaseDate, date, today) ==
  LET releaseDateFormatted ==
        IF releaseDate # Null THEN convertReleaseDateToAPIFormat(releaseDate, date)
        ELSE Null
  IN [mid |-> filmCommonCode,
      dated |-> IF releaseDateFormatted # Null
                THEN IF StrLess(releaseDateFormatted, todayFormatted(today))
                     THEN todayFormatted(today)
                     ELSE releaseDateFormatted
                ELSE todayFormatted(today)]

----------------------------------------------------------------------------
(* Theatre listings and cinema matching *)

\* getTheaterNames: the sessions that carry a cinema name
getTheaterNames(listingsData) ==
  IF ~listingsData.sessionsIsArray THEN <<>>
  ELSE LET named == SelectSeq(listingsData.sessions, LAMBDA x : x.name # Null)
       IN [i \in DOMAIN named |->
             [name |-> named[i].name, theatreId |-> named[i].theatreId]]

uniqueTheaters_FirstWins(all) ==
  LET names == Distinct([i \in DOMAIN all |-> all[i].name])
      firstOf(n) == CHOOSE i \in DOMAIN all :
                      /\ all[i].name = n
                      /\ \A j \in DOMAIN all : all[j].name = n => i <= j
  IN [k \in DOMAIN names |-> all[firstOf(names[k])]]

\* Array.from(new Map(all.map(t => [t.name, t])).values()): one entry per name, at
\* the place of the name's first occurrence, holding its last record
uniqueTheaters(all) ==
  LET names == Distinct([i \in DOMAIN all |-> all[i].name])
      lastOf(n) == CHOOSE i \in DOMAIN all :
                     /\ all[i].name = n
                     /\ \A j \in DOMAIN all : all[j].name = n => j <= i
  IN [k \in DOMAIN names |-> all[lastOf(names[k])]]

\* the (theatre, set) pairs of the two nested forEach loops whose test passes
cinemaHits(cinemaKeywords, theaterNames) ==
  Flatten([t \in DOMAIN theaterNames |->
     SelectSeq([i \in DOMAIN cinemaKeywords.sets |-> [t |-> t, i |-> i]],
               LAMBDA h : allKeywordsFound(cinemaKeywords.sets[h.i].kws,
                                           theaterNames[h.t].name))])

\* keywordSet.every is not a function when a set of the configuration is no list
cinemaThrows(cinemaKeywords, theaterNames) ==
  /\ cinemaKeywords.isArray
  /\ theaterNames # <<>>
  /\ \E i \in DOMAIN cinemaKeywords.sets : ~cinemaKeywords.sets[i].isArray

checkCinemaKeywords_AllMatch(cinemaKeywords, theaterNames) ==
  [matched |-> TRUE, matchingTheaters |-> theaterNames, matchedSets |-> <<>>]

\* checkCinemaKeywords: a set is pushed once (by index), a theatre once (by name)
checkCinemaKeywords(cinemaKeywords, theaterNames) ==
  IF ~cinemaKeywords.isArray \/ cinemaKeywords.sets = <<>>
  THEN [matched |-> TRUE, matchingTheaters |-> theaterNames, matchedSets |-> <<>>]
  ELSE LET hits == cinemaHits(cinemaKeywords, theaterNames)
           setIdx == Distinct([h \in DOMAIN hits |-> hits[h].i])
           hitTh == Distinct([h \in DOMAIN hits |-> hits[h].t])
           thIdx == SelectSeq(hitTh, LAMBDA t :
                       \A u \in Range(hitTh) :
                          theaterNames[u].name = theaterNames[t].name => t <= u)
       IN [matched |-> setIdx # <<>>,
           matchingTheaters |-> [k \in DOMAIN thIdx |-> theaterNames[thIdx[k]]],
           matchedSets |-> [k \in DOMAIN setIdx |->
                              [keywordSet |-> cinemaKeywords.sets[setIdx[k]],
                               setIndex |-> setIdx[k] - 1]]]

----------------------------------------------------------------------------
(* The condition *)

\* the configured-and-usable test of a keyword-set configuration:
\* cfg && Array.isArray(cfg) && cfg.length > 0
configured(keywordSets) == keywordSets.isArray /\ keywordSets.sets # <<>>

\* String(x): null prints as 'null'
String(x) == IF x = Null THEN <<110, 117, 108, 108>> ELSE x

\* the context helper hasFilm
hasFilm(filmNames, search) ==
  \E i \in DOMAIN filmNames :
     includes(toLowerCase(String(filmNames[i])), toLowerCase(String(search)))

\* new Function(...)(...) throws on the expression: "movies.length >" does not
\* compile (SyntaxError), "nowShowing > 0" names no identifier of the context
\* (ReferenceError), "movies[0].year > 0" reads a property of undefined when there is
\* no movie (TypeError)
expressionThrows(expr, movies) ==
  CASE expr = "movies.length >" -> TRUE
    [] expr = "nowShowing > 0" -> TRUE
    [] expr = "movies[0].year > 0" -> movies = <<>>
    [] OTHER -> FALSE

\* new Function(...)(...) on the expressions the model knows; an expression that
\* does not compile, or throws, is caught by checkCondition and gives false
evalExpression(expr, movies, filmNames, targetMovie) ==
  CASE expr = "movies.length > 0" -> Len(movies) > 0
    [] expr = "hasFilm(targetMovie)" -> hasFilm(filmNames, targetMovie)
    [] expr = "movies[0].year > 0" -> movies[1].year > 0
    [] expr = "true" -> TRUE
    [] expr = "false" -> FALSE
    [] OTHER -> FALSE

conditionToEvaluate_KeywordsFirst(cfg) ==
  IF configured(cfg.movieKeywords) THEN ""
  ELSE IF cfg.checkCondition # "" THEN cfg.checkCondition
  ELSE IF cfg.targetMovie # Null THEN "hasFilm(targetMovie)"
  ELSE "movies.length > 0"

\* checkCondition: the expression handed to new Function; "" when the function
\* returns the keyword-set match instead (CHECK_CONDITION not set, MOVIE_KEYWORDS set)
conditionToEvaluate(cfg) ==
  IF cfg.checkCondition # "" THEN cfg.checkCondition
  ELSE IF configured(cfg.movieKeywords) THEN ""
  ELSE IF cfg.targetMovie # Null THEN "hasFilm(targetMovie)"
  ELSE "movies.length > 0"

checkCondition_ErrorMeansMet(cfg, responseData) ==
  LET movies == getMovies(responseData)
      filmNames == getAllFilmNames(movies)
      expr == conditionToEvaluate(cfg)
  IN IF getAllFilmNamesThrows(movies) THEN FALSE
     ELSE IF expr = ""
     THEN Len(checkKeywordSets(cfg.movieKeywords, filmNames)) > 0
     ELSE IF expressionThrows(expr, movies) THEN TRUE
     ELSE evalExpression(expr, movies, filmNames, cfg.targetMovie)

checkCondition_AlwaysMet(cfg, responseData) == TRUE

\* checkCondition; cfg.checkCondition = "" when CHECK_CONDITION is not set. The
\* whole body is inside try: an error of getAllFilmNames or of the expression
\* is caught and the function returns false
checkCondition(cfg, responseData) ==
  LET movies == getMovies(responseData)
      filmNames == getAllFilmNames(movies)
      expr == conditionToEvaluate(cfg)
  IN IF getAllFilmNamesThrows(movies) THEN FALSE
     ELSE IF expr = ""
     THEN Len(checkKeywordSets(cfg.movieKeywords, filmNames)) > 0
     ELSE IF expressionThrows(expr, movies) THEN FALSE
     ELSE evalExpression(expr, movies, filmNames, cfg.targetMovie)

\* getMatchingKeywordSets
getMatchingKeywordSets(cfg, responseData) ==
  IF configured(cfg.movieKeywords) /\ ~getAllFilmNamesThrows(getMovies(responseData))
  THEN checkKeywordSets(cfg.movieKeywords, getAllFilmNames(getMovies(responseData)))
  ELSE <<>>

\* monitor: targetMovieFound
targetMovieFound(cfg, filmNames) ==
  /\ cfg.targetMovie # Null
  /\ \E i \in DOMAIN filmNames :
        includes(toLowerCase(filmNames[i]), toLowerCase(cfg.targetMovie))

----------------------------------------------------------------------------
(* The match key and the escalation decision *)

MatchKey_NoSort(keywordMatches, filmCommonCodes, cinemaMatchResult, targetFound, targetMovie) ==
  IF keywordMatches # <<>> /\ filmCommonCodes # <<>>
  THEN join(filmCommonCodes, <<44>>) \o <<124>> \o
       (IF cinemaMatchResult.matchingTheaters # <<>>
        THEN join([i \in DOMAIN cinemaMatchResult.matchingTheaters |->
                      cinemaMatchResult.matchingTheaters[i].name], <<44>>)
        ELSE <<97, 108, 108>>)
  ELSE IF targetFound THEN <<108, 101, 103, 97, 99, 121, 124>> \o targetMovie
  ELSE Null

MatchKey_AlwaysKeyed(keywordMatches, filmCommonCodes, cinemaMatchResult, targetFound, targetMovie) ==
  join(sort(filmCommonCodes), <<44>>) \o <<124>> \o <<97, 108, 108>>

\* monitor: matchKey; null when neither branch applies
MatchKey(keywordMatches, filmCommonCodes, cinemaMatchResult, targetFound, targetMovie) ==
  IF keywordMatches # <<>> /\ filmCommonCodes # <<>>
  THEN join(sort(filmCommonCodes), <<44>>) \o <<124>> \o
       (IF cinemaMatchResult.matchingTheaters # <<>>
        THEN join(sort([i \in DOMAIN cinemaMatchResult.matchingTheaters |->
                           cinemaMatchResult.matchingTheaters[i].name]), <<44>>)
        ELSE <<97, 108, 108>>)
  ELSE IF targetFound THEN <<108, 101, 103, 97, 99, 121, 124>> \o targetMovie
  ELSE Null

escalationDecision_NoDedup(cfg, matchKey, made) ==
  IF ~cfg.enablePhoneCall THEN "disabled"
  ELSE IF ~cfg.twilioConfigured THEN "noCredentials"
  ELSE "call"

\* makePhoneCall up to its await: the early returns, else the call is placed
escalationDecision(cfg, matchKey, made) ==
  IF ~cfg.enablePhoneCall THEN "disabled"
  ELSE IF ~cfg.twilioConfigured THEN "noCredentials"
  ELSE IF matchKey # Null /\ matchKey \in made THEN "repeat"
  ELSE "call"

markCalled_Never(made, matchKey) == made

markCalled_OnlyLatest(made, matchKey) ==
  IF matchKey # Null THEN {matchKey} ELSE made

\* makePhoneCall after a successful calls.create: if (matchKey) phoneCallMade.add
markCalled(made, matchKey) ==
  IF matchKey # Null THEN made \cup {matchKey} ELSE made

seenAfterCall_RecordsFailure(made, matchKey, ok) == markCalled(made, matchKey)

\* makePhoneCall from the return of client.calls.create: the key is added after a
\* call that was initiated; a rejection goes to the catch, which adds nothing
seenAfterCall(made, matchKey, ok) ==
  IF ok THEN markCalled(made, matchKey) ELSE made

----------------------------------------------------------------------------
(* The inputs of the model: configurations and collaborator answers *)

KwSet(kws) == [isArray |-> TRUE, kws |-> kws]
KwConfig(sets) == [isArray |-> TRUE, sets |-> sets]
\* MOVIE_KEYWORDS / CINEMA_KEYWORDS not set
NoKeywords == [isArray |-> FALSE, sets |-> <<>>]

BaseConfig ==
  [movieKeywords |-> KwConfig(<<KwSet(<<<<97>>, <<66>>>>)>>),    \* [["a","B"]]
   cinemaKeywords |-> NoKeywords,
   targetMovie |-> Null,
   checkCondition |-> "",
   enablePhoneCall |-> TRUE,
   twilioConfigured |-> TRUE]

Legacy == [BaseConfig EXCEPT !.movieKeywords = NoKeywords, !.targetMovie = <<97, 66>>]
Default == [BaseConfig EXCEPT !.movieKeywords = NoKeywords]

Configs ==
  { BaseConfig,
    \* CINEMA_KEYWORDS=[["y"]]
    [BaseConfig EXCEPT !.cinemaKeywords = KwConfig(<<KwSet(<<<<121>>>>)>>)],
    \* MOVIE_NAME=aB alone
    Legacy,
    \* nothing tracked: the default condition
    Default,
    [Legacy EXCEPT !.enablePhoneCall = FALSE],
    [Default EXCEPT !.twilioConfigured = FALSE],
    \* CHECK_CONDITION=true next to keyword sets and MOVIE_NAME
    [BaseConfig EXCEPT !.checkCondition = "true", !.targetMovie = <<97, 66>>,
                       !.enablePhoneCall = FALSE],
    \* CHECK_CONDITION set to an expression that throws when there is no movie
    [Default EXCEPT !.checkCondition = "movies[0].year > 0", !.enablePhoneCall = FALSE],
    \* CHECK_CONDITION set to an expression that does not compile, next to keyword sets
    [BaseConfig EXCEPT !.checkCondition = "movies.length >"],
    \* CHECK_CONDITION set to an expression that names a missing identifier
    [Default EXCEPT !.checkCondition = "nowShowing > 0"] }

\* isNull marks the JSON value null standing where a record is expected
Film(name, code, date) ==
  [isNull |-> FALSE, filmName |-> name, filmCommonCode |-> code, releaseDate |-> date]
Movie(name, date, y, m, d, films) ==
  [isNull |-> FALSE, filmName |-> name, releaseDate |-> date, year |-> y, month |-> m,
   day |-> d, films |-> films]
NullFilm == [Film(Null, Null, Null) EXCEPT !.isNull = TRUE]
NullMovie == [Movie(Null, Null, 0, 0, 0, <<>>) EXCEPT !.isNull = TRUE]

\* "2025-11-14"
Date1 == <<50, 48, 50, 53, 45, 49, 49, 45, 49, 52>>

\* the listing bodies the primary endpoint may answer with
ListingBodies ==
  { \* "Ab" with the codes "d" and "c", in that order
    [mvIsArray |-> TRUE,
     mv |-> <<Movie(<<65, 98>>, Null, 2025, 3, 7,
                    <<Film(Null, <<100>>, Null), Film(<<65, 98>>, <<99>>, Date1)>>)>>],
    \* "Ab" with the single code "c,d"
    [mvIsArray |-> TRUE,
     mv |-> <<Movie(<<65, 98>>, Date1, 0, 0, 0, <<Film(Null, <<99, 44, 100>>, Null)>>)>>],
    \* "Ab" without any film record
    [mvIsArray |-> TRUE, mv |-> <<Movie(<<65, 98>>, Null, 0, 0, 0, <<>>)>>],
    \* "Zz", which no configuration tracks
    [mvIsArray |-> TRUE,
     mv |-> <<Movie(<<90, 122>>, Null, 0, 0, 0, <<Film(Null, <<99>>, Null)>>)>>],
    \* no movie list
    [mvIsArray |-> FALSE, mv |-> <<>>] }

NoData == [mvIsArray |-> FALSE, mv |-> <<>>]

\* what pingAPI resolves to
PingResults ==
  {[success |-> TRUE, data |-> b] : b \in ListingBodies}
    \cup {[success |-> FALSE, data |-> NoData]}

Session(name, id) == [name |-> name, theatreId |-> id]

\* a JSON object that cannot be converted to a string, such as {"toString": 1}:
\* String(v) and a template literal holding v raise a TypeError
NoPrimitive == <<-1>>

ToStringThrows(v) == v = NoPrimitive

NoSessions == [sessionsIsArray |-> FALSE, sessions |-> <<>>]

\* what fetchTheaterListings resolves to for a film code: a failure, or the
\* theatres showing the film ("x" alone for the code "c", "x" and "Y" otherwise;
\* the record of "x" differs between the two); for the code "c,d" also a theatre
\* whose name is an object that has no string form
ListingResults(code) ==
  { [success |-> TRUE,
     data |-> [sessionsIsArray |-> TRUE,
               sessions |-> IF code = <<99>>
                            THEN <<Session(<<120>>, 3)>>
                            ELSE <<Session(<<120>>, 1), Session(<<89>>, 2)>>]],
    [success |-> FALSE, data |-> NoSessions] }
    \cup (IF code = <<99, 44, 100>>
          THEN {[success |-> TRUE,
                 data |-> [sessionsIsArray |-> TRUE,
                           sessions |-> <<Session(NoPrimitive, 4)>>]]}
          ELSE {})

----------------------------------------------------------------------------
(* One monitor cycle *)

NoCinemaResult == [matched |-> FALSE, matchingTheaters |-> <<>>, matchedSets |-> <<>>]

\* a cycle that has not started; the fields after callMade are history (notifyFailed:
\* bot.sendMessage failed for the update message of a cycle that is now placing its
\* voice call; evaluated: the expression checkCondition handed to new Function, ""
\* when none)
IdleCycle ==
  [pc |-> "idle",
   result |-> [success |-> FALSE, data |-> NoData],
   conditionMet |-> FALSE,
   keywordMatches |-> <<>>,
   targetMovieFound |-> FALSE,
   filmInfo |-> <<>>,
   filmCommonCodes |-> <<>>,
   allTheaterNames |-> <<>>,
   uniqueTheaters |-> <<>>,
   cinemaMatchResult |-> NoCinemaResult,
   shouldNotify |-> FALSE,
   matchKey |-> Null,
   callMade |-> FALSE,
   notifyFailed |-> FALSE,
   condEvaluated |-> FALSE,
   evaluated |-> "",
   resolved |-> FALSE,
   lookups |-> <<>>,
   notifications |-> <<>>,
   escalation |-> "none",
   keysWritten |-> {},
   inFlightAtStart |-> {}]

\* pc "threw": monitor ended in an exception, its promise is rejected and nothing
\* handles the rejection; pc "crashed": the runtime ended the process for it
InFlight(c) == c.pc \notin {"idle", "done", "threw", "crashed"}

fetchFailed_Never(result) == FALSE

\* monitor: if (!result.success)
fetchFailed(result) == ~result.success

shouldNotify_Always(cfg, keywordMatches, cinemaMatchResult) == TRUE

shouldNotify_CinemaRequired(cfg, keywordMatches, cinemaMatchResult) ==
  configured(cfg.cinemaKeywords) /\ cinemaMatchResult.matched

shouldNotify_NeedsTheatres(cfg, keywordMatches, cinemaMatchResult) ==
  IF keywordMatches # <<>> /\ configured(cfg.cinemaKeywords)
  THEN cinemaMatchResult.matched
  ELSE cinemaMatchResult.matchingTheaters # <<>>

\* monitor: shouldNotify on the three branches
shouldNotify(cfg, keywordMatches, cinemaMatchResult) ==
  IF keywordMatches # <<>> /\ configured(cfg.cinemaKeywords)
  THEN cinemaMatchResult.matched
  ELSE TRUE

\* monitor converts every theatre name to a string outside any try: in
\* checkCinemaKeywords (String(theater.name)) when cinema keywords are configured,
\* in the message (`${theater.name}`) when they are not
theaterNameThrows(theaters) ==
  \E i \in DOMAIN theaters : ToStringThrows(theaters[i].name)

afterLookups_CallWhenSkipped(cfg, c) ==
  LET unique == uniqueTheaters(c.allTheaterNames)
      checked == checkCinemaKeywords(cfg.cinemaKeywords, unique)
      cinema == IF configured(cfg.cinemaKeywords) THEN checked
                ELSE [matched |-> TRUE, matchingTheaters |-> unique, matchedSets |-> <<>>]
      notify == shouldNotify(cfg, c.keywordMatches, cinema)
  IN IF cinemaThrows(cfg.cinemaKeywords, unique) \/ theaterNameThrows(unique)
     THEN [c EXCEPT !.pc = "threw", !.uniqueTheaters = unique]
     ELSE [c EXCEPT !.uniqueTheaters = unique,
                    !.cinemaMatchResult = cinema,
                    !.shouldNotify = notify,
                    !.notifications = IF notify THEN Append(@, "update") ELSE @,
                    !.pc = "notifying"]

\* monitor from "Remove duplicates" to the await of sendTelegramNotification;
\* without cinema keywords the result of checkCinemaKeywords is replaced by the
\* same all-theatres result
afterLookups(cfg, c) ==
  LET unique == uniqueTheaters(c.allTheaterNames)
      checked == checkCinemaKeywords(cfg.cinemaKeywords, unique)
      cinema == IF configured(cfg.cinemaKeywords) THEN checked
                ELSE [matched |-> TRUE, matchingTheaters |-> unique, matchedSets |-> <<>>]
      notify == shouldNotify(cfg, c.keywordMatches, cinema)
  IN IF cinemaThrows(cfg.cinemaKeywords, unique) \/ theaterNameThrows(unique)
     THEN [c EXCEPT !.pc = "threw", !.uniqueTheaters = unique]
     ELSE [c EXCEPT !.uniqueTheaters = unique,
                    !.cinemaMatchResult = cinema,
                    !.shouldNotify = notify,
                    !.notifications = IF notify THEN Append(@, "update") ELSE @,
                    !.pc = IF notify THEN "notifying" ELSE "done"]

\* monitor from the return of pingAPI to its next await
afterPing(cfg, c0, result) ==
  LET c == [c0 EXCEPT !.result = result]
      movies == getMovies(result.data)
      filmNames == getAllFilmNames(movies)
      met == checkCondition(cfg, result.data)
      matches == getMatchingKeywordSets(cfg, result.data)
      found == targetMovieFound(cfg, filmNames)
      allMatchingFilms == Flatten([i \in DOMAIN matches |-> matches[i].matchingFilms])
      info == extractFilmInfo(movies, allMatchingFilms)
  IN IF fetchFailed(result)
     THEN [c EXCEPT !.pc = "errNotifying", !.notifications = Append(@, "error")]
     ELSE IF ~met
     THEN [c EXCEPT !.pc = "done", !.condEvaluated = TRUE,
                    !.evaluated = conditionToEvaluate(cfg)]
     ELSE IF matches # <<>>
     THEN LET k == [c EXCEPT !.condEvaluated = TRUE, !.conditionMet = TRUE,
                             !.evaluated = conditionToEvaluate(cfg),
                             !.keywordMatches = matches, !.targetMovieFound = found,
                             !.resolved = TRUE, !.filmInfo = info,
                             !.filmCommonCodes = [i \in DOMAIN info |-> info[i].code]]
          IN IF info # <<>> THEN [k EXCEPT !.pc = "lookup"] ELSE afterLookups(cfg, k)
     ELSE [c EXCEPT !.condEvaluated = TRUE, !.conditionMet = TRUE,
                    !.evaluated = conditionToEvaluate(cfg),
                    !.targetMovieFound = found, !.shouldNotify = TRUE,
                    !.notifications = Append(@, "update"), !.pc = "notifying"]

afterListing_AbortOnFailure(cfg, c0, listingsResult) ==
  LET c == [c0 EXCEPT !.lookups = Append(@, listingsResult),
                      !.allTheaterNames =
                         IF listingsResult.success
                         THEN @ \o getTheaterNames(listingsResult.data) ELSE @]
  IN IF Len(c.lookups) < Len(c.filmInfo) /\ listingsResult.success
     THEN c ELSE afterLookups(cfg, c)

\* monitor: one turn of the loop over filmInfo, from the return of
\* fetchTheaterListings to the next await
afterListing(cfg, c0, listingsResult) ==
  LET c == [c0 EXCEPT !.lookups = Append(@, listingsResult),
                      !.allTheaterNames =
                         IF listingsResult.success
                         THEN @ \o getTheaterNames(listingsResult.data) ELSE @]
  IN IF Len(c.lookups) < Len(c.filmInfo) THEN c ELSE afterLookups(cfg, c)

afterNotification_StopOnFailure(cfg, c0, sent, made) ==
  LET key == MatchKey(c0.keywordMatches, c0.filmCommonCodes, c0.cinemaMatchResult,
                      c0.targetMovieFound, cfg.targetMovie)
      decision == escalationDecision(cfg, key, made)
  IN IF ~sent THEN [c0 EXCEPT !.pc = "done"]
     ELSE [c0 EXCEPT !.matchKey = key,
                     !.notifyFailed = FALSE,
                     !.escalation = IF decision = "call" THEN "calling" ELSE decision,
                     !.pc = IF decision = "call" THEN "calling" ELSE "done"]

\* monitor from the return of sendTelegramNotification to the await inside
\* makePhoneCall (the call is placed), or to the end of the cycle
afterNotification(cfg, c0, sent, made) ==
  LET key == MatchKey(c0.keywordMatches, c0.filmCommonCodes, c0.cinemaMatchResult,
                      c0.targetMovieFound, cfg.targetMovie)
      decision == escalationDecision(cfg, key, made)
  IN [c0 EXCEPT !.matchKey = key,
                !.notifyFailed = ~sent /\ decision = "call",
                !.escalation = IF decision = "call" THEN "calling" ELSE decision,
                !.pc = IF decision = "call" THEN "calling" ELSE "done"]

\* monitor() is called without await or catch, by the startup driver and by
\* setInterval: a rejection is unhandled. The runtime either ends the process
\* (the default since Node 15) or only warns (older versions,
\* --unhandled-rejections=warn)
unhandledRejection(c) ==
  IF c.pc = "threw" THEN {c, [c EXCEPT !.pc = "crashed"]} ELSE {c}

----------------------------------------------------------------------------
(* The process *)

Cycles == 1..MaxCycles

\* the process has not been ended by an unhandled rejection
Alive == \A c \in Cycles : cyc[c].pc # "crashed"

\* fn holds the input and the result of a function run on its own
NoFn == [op |-> "none"]

Init ==
  /\ config \in Configs
  /\ phoneCallMade = {}
  /\ cyc = [c \in Cycles |-> IdleCycle]
  /\ started = 0
  /\ fn = NoFn

\* the startup run and every timer tick call monitor(), which runs up to the
\* await of pingAPI; nothing keeps a tick from firing while cycles are in flight
Tick ==
  /\ Alive
  /\ started < MaxCycles
  /\ Cardinality({c \in Cycles : InFlight(cyc[c])}) < MaxInFlight
  /\ started' = started + 1
  /\ cyc' = [cyc EXCEPT ![started + 1] =
               [IdleCycle EXCEPT !.pc = "fetching",
                                 !.inFlightAtStart = {c \in Cycles : InFlight(cyc[c])}]]
  /\ UNCHANGED <<config, phoneCallMade, fn>>

\* pingAPI resolves
PingReturns(c) ==
  /\ Alive
  /\ cyc[c].pc = "fetching"
  /\ \E result \in PingResults :
        \E d \in unhandledRejection(afterPing(config, cyc[c], result)) :
           cyc' = [cyc EXCEPT ![c] = d]
  /\ UNCHANGED <<config, phoneCallMade, started, fn>>

\* fetchTheaterListings resolves
ListingReturns(c) ==
  /\ Alive
  /\ cyc[c].pc = "lookup"
  /\ \E r \in ListingResults(cyc[c].filmInfo[Len(cyc[c].lookups) + 1].code) :
        \E d \in unhandledRejection(afterListing(config, cyc[c], r)) :
           cyc' = [cyc EXCEPT ![c] = d]
  /\ UNCHANGED <<config, phoneCallMade, started, fn>>

\* sendTelegramNotification resolves after the error message (sent tells whether
\* bot.sendMessage succeeded; a failure is caught and logged): the cycle returns
ErrorNotificationReturns(c, sent) ==
  /\ Alive
  /\ cyc[c].pc = "errNotifying"
  /\ cyc' = [cyc EXCEPT ![c] = [@ EXCEPT !.pc = "done"]]
  /\ UNCHANGED <<config, phoneCallMade, started, fn>>

\* sendTelegramNotification resolves after the update message; the cycle goes on
\* to makePhoneCall
NotificationReturns(c, sent) ==
  /\ Alive
  /\ cyc[c].pc = "notifying"
  /\ cyc' = [cyc EXCEPT ![c] = afterNotification(config, @, sent, phoneCallMade)]
  /\ UNCHANGED <<config, phoneCallMade, started, fn>>

\* client.calls.create resolves or rejects
CallReturns(c) ==
  /\ Alive
  /\ cyc[c].pc = "calling"
  /\ \E ok \in BOOLEAN :
        /\ phoneCallMade' = seenAfterCall(phoneCallMade, cyc[c].matchKey, ok)
        /\ cyc' = [cyc EXCEPT ![c] =
                     [@ EXCEPT !.pc = "done",
                               !.callMade = ok,
                               !.notifyFailed = FALSE,
                               !.escalation = IF ok THEN "made" ELSE "failed",
                               !.keysWritten =
                                  seenAfterCall(phoneCallMade, cyc[c].matchKey, ok)
                                    \ phoneCallMade]]
  /\ UNCHANGED <<config, started, fn>>

Next ==
  \/ Tick
  \/ \E c \in Cycles : PingReturns(c)
  \/ \E c \in Cycles : ListingReturns(c)
  \/ \E c \in Cycles, sent \in BOOLEAN : ErrorNotificationReturns(c, sent)
  \/ \E c \in Cycles, sent \in BOOLEAN : NotificationReturns(c, sent)
  \/ \E c \in Cycles : CallReturns(c)

Spec == Init /\ [][Next]_vars

----------------------------------------------------------------------------
(* The keyword matcher run on its own, over every configuration of at most  *)
(* MaxSets sets and every list of at most MaxNames names                    *)

SeqsUpTo(S, n) == UNION {[1..k -> S] : k \in 0..n}

\* [], ["a"], ["a","B"], ["z"], and a set that is no list
MatcherSets ==
  { KwSet(<<>>), KwSet(<<<<97>>>>), KwSet(<<<<97>>, <<66>>>>), KwSet(<<<<122>>>>),
    [isArray |-> FALSE, kws |-> <<>>] }

\* "Ab", "aZ", "b"
MatcherNames == { <<65, 98>>, <<97, 90>>, <<98>> }

MatcherConfigs ==
  {KwConfig(sets) : sets \in SeqsUpTo(MatcherSets, MaxSets)} \cup {NoKeywords}

\* the theatre records given to the cinema matcher: one per name, id by position
MatcherTheaters(names) == [i \in DOMAIN names |-> [name |-> names[i], theatreId |-> i]]

\* the runs of the matcher functions, each on one input
MatcherRuns ==
  {[op |-> "checkKeywordSets", keywordSets |-> k, filmNames |-> n,
    applied |-> FALSE, threw |-> FALSE, out |-> <<>>] :
     k \in MatcherConfigs, n \in SeqsUpTo(MatcherNames, MaxNames)}
  \cup
  {[op |-> "checkKeywordSet", keywordSets |-> KwConfig(<<k>>), filmNames |-> n,
    applied |-> FALSE, threw |-> FALSE, out |-> <<>>] :
     k \in MatcherSets, n \in SeqsUpTo(MatcherNames, MaxNames)}
  \cup
  {[op |-> "checkCinemaKeywords", keywordSets |-> k, filmNames |-> n,
    applied |-> FALSE, threw |-> FALSE, out |-> <<>>] :
     k \in MatcherConfigs, n \in SeqsUpTo(MatcherNames, MaxNames)}

InitMatcher ==
  /\ config = BaseConfig
  /\ phoneCallMade = {}
  /\ cyc = [c \in Cycles |-> IdleCycle]
  /\ started = 0
  /\ fn \in MatcherRuns

ApplyCheckKeywordSets ==
  /\ fn.op = "checkKeywordSets"
  /\ ~fn.applied
  /\ fn' = [fn EXCEPT !.applied = TRUE,
                      !.out = checkKeywordSets(fn.keywordSets, fn.filmNames)]
  /\ UNCHANGED <<config, phoneCallMade, cyc, started>>

\* checkKeywordSet on the one set fn.keywordSets holds
ApplyCheckKeywordSet ==
  /\ fn.op = "checkKeywordSet"
  /\ ~fn.applied
  /\ fn' = [fn EXCEPT !.applied = TRUE,
                      !.out = checkKeywordSet(fn.keywordSets.sets[1], fn.filmNames)]
  /\ UNCHANGED <<config, phoneCallMade, cyc, started>>

\* checkCinemaKeywords on theatre records with the names fn.filmNames; threw tells
\* that the call ended in a TypeError instead of a result
ApplyCheckCinemaKeywords ==
  /\ fn.op = "checkCinemaKeywords"
  /\ ~fn.applied
  /\ LET theaters == MatcherTheaters(fn.filmNames)
     IN fn' = IF cinemaThrows(fn.keywordSets, theaters)
              THEN [fn EXCEPT !.applied = TRUE, !.threw = TRUE]
              ELSE [fn EXCEPT !.applied = TRUE,
                              !.out = checkCinemaKeywords(fn.keywordSets, theaters)]
  /\ UNCHANGED <<config, phoneCallMade, cyc, started>>

NextMatcher ==
  \/ ApplyCheckKeywordSets
  \/ ApplyCheckKeywordSet
  \/ ApplyCheckCinemaKeywords

SpecMatcher == InitMatcher /\ [][NextMatcher]_vars

----------------------------------------------------------------------------
(* The date functions run on their own, over the release dates of DateInputs   *)
(* and the days of Todays                                                       *)

\* the release dates a film record may carry:
\*   none; "2025-11-14"; "2025-99-99"; "Nov 14, 2025"; "Mar 7, 2025"; "Nov 31, 2025";
\*   "Nov 32, 2025"; "soon"; "0050-06-15T12:00:00"
DateInputs ==
  { Null,
    Date1,
    <<50, 48, 50, 53, 45, 57, 57, 45, 57, 57>>,
    <<78, 111, 118, 32, 49, 52, 44, 32, 50, 48, 50, 53>>,
    <<77, 97, 114, 32, 55, 44, 32, 50, 48, 50, 53>>,
    <<78, 111, 118, 32, 51, 49, 44, 32, 50, 48, 50, 53>>,
    <<78, 111, 118, 32, 51, 50, 44, 32, 50, 48, 50, 53>>,
    <<115, 111, 111, 110>>,
    <<48, 48, 53, 48, 45, 48, 54, 45, 49, 53, 84, 49, 50, 58, 48, 48, 58, 48, 48>> }

\* the days on which a lookup is made: 13, 14 and 15 November 2025, 7 March 2025
Todays ==
  { [year |-> 2025, month |-> 11, day |-> 13],
    [year |-> 2025, month |-> 11, day |-> 14],
    [year |-> 2025, month |-> 11, day |-> 15],
    [year |-> 2025, month |-> 3, day |-> 7] }

NoToday == [year |-> 0, month |-> 0, day |-> 0]

\* the film codes "c" and "d"
DateCodes == { <<99>>, <<100>> }

DateRun(op, mid, str, today) ==
  [op |-> op, mid |-> mid, str |-> str, today |-> today, step |-> 0,
   date |-> InvalidDate, out |-> Null, out2 |-> Null, dated |-> Null]

DateRuns ==
  {DateRun("convertReleaseDateToAPIFormat", Null, str, NoToday) : str \in DateInputs}
  \cup
  {DateRun("fetchTheaterListings", r[1], r[2], r[3]) :
     r \in DateCodes \X DateInputs \X Todays}

InitDates ==
  /\ config = BaseConfig
  /\ phoneCallMade = {}
  /\ cyc = [c \in Cycles |-> IdleCycle]
  /\ started = 0
  /\ fn \in DateRuns

\* convertReleaseDateToAPIFormat(str)
ApplyConvertReleaseDate ==
  /\ fn.op = "convertReleaseDateToAPIFormat"
  /\ fn.step = 0
  /\ \E date \in NewDate(fn.str) :
        fn' = [fn EXCEPT !.step = 1, !.date = date,
                         !.out = convertReleaseDateToAPIFormat(fn.str, date)]
  /\ UNCHANGED <<config, phoneCallMade, cyc, started>>

\* convertReleaseDateToAPIFormat on the result of the first run
ApplyConvertAgain ==
  /\ fn.op = "convertReleaseDateToAPIFormat"
  /\ fn.step = 1
  /\ fn.out # Null
  /\ \E date \in NewDate(fn.out) :
        fn' = [fn EXCEPT !.step = 2, !.date = date,
                         !.out2 = convertReleaseDateToAPIFormat(fn.out, date)]
  /\ UNCHANGED <<config, phoneCallMade, cyc, started>>

\* fetchTheaterListings(mid, str) up to the request; out is releaseDateFormatted
ApplyFetchTheaterListings ==
  /\ fn.op = "fetchTheaterListings"
  /\ fn.step = 0
  /\ \E date \in NewDate(fn.str) :
        fn' = [fn EXCEPT
                 !.step = 1, !.date = date,
                 !.out = IF fn.str # Null
                         THEN convertReleaseDateToAPIFormat(fn.str, date) ELSE Null,
                 !.dated = theaterListingsRequest(fn.mid, fn.str, date, fn.today).dated]
  /\ UNCHANGED <<config, phoneCallMade, cyc, started>>

NextDates ==
  \/ ApplyConvertReleaseDate
  \/ ApplyConvertAgain
  \/ ApplyFetchTheaterListings

SpecDates == InitDates /\ [][NextDates]_vars

----------------------------------------------------------------------------
(* The film-info resolver run on its own, over every list of at most MaxMovies *)
(* of the movie records of InfoMovies                                          *)

\* "2025-11-15"
Date2 == <<50, 48, 50, 53, 45, 49, 49, 45, 49, 53>>

\* movie records around the name "Ab" and the codes "c" and "d":
\* the dates they offer for "c" are none, "2025-03-07" (from year, month, day),
\* "2025-11-14" (movie level), "2025-11-15" (film level), none then "2025-11-14",
\* and "2025-11-15" (film level) before "2025-11-14" and 2025, 3, 7
InfoMovies ==
  { Movie(<<65, 98>>, Null, 0, 0, 0, <<Film(Null, <<99>>, Null)>>),
    Movie(<<65, 98>>, Null, 2025, 3, 7, <<Film(Null, <<99>>, Null)>>),
    Movie(<<90, 122>>, Date1, 0, 0, 0, <<Film(<<65, 98>>, <<99>>, Null)>>),
    Movie(<<90, 122>>, Null, 0, 0, 0,
          <<Film(<<65, 98>>, <<99>>, Date2), Film(<<65, 98>>, <<100>>, Null)>>),
    Movie(<<65, 98>>, Null, 0, 0, 0,
          <<Film(<<65, 98>>, <<99>>, Null), Film(<<65, 98>>, <<99>>, Date1)>>),
    \* a record that does not match: "Zz" with a film without name
    Movie(<<90, 122>>, Date1, 0, 0, 0, <<Film(Null, <<99>>, Date1)>>),
    \* a record with all three dates: "Ab" with "2025-11-14" and 2025, 3, 7, whose
    \* film "c" has "2025-11-15" and whose film "d" has none
    Movie(<<65, 98>>, Date1, 2025, 3, 7,
          <<Film(Null, <<99>>, Date2), Film(<<90, 122>>, <<100>>, Null)>>) }

InfoRuns ==
  {[op |-> "extractFilmInfo", movies |-> m, matchingFilms |-> f,
    applied |-> FALSE, out |-> <<>>] :
     m \in SeqsUpTo(InfoMovies, MaxMovies), f \in {<<>>, <<<<65, 98>>>>}}

InitFilmInfo ==
  /\ config = BaseConfig
  /\ phoneCallMade = {}
  /\ cyc = [c \in Cycles |-> IdleCycle]
  /\ started = 0
  /\ fn \in InfoRuns

ApplyExtractFilmInfo ==
  /\ fn.op = "extractFilmInfo"
  /\ ~fn.applied
  /\ fn' = [fn EXCEPT !.applied = TRUE,
                      !.out = extractFilmInfo(fn.movies, fn.matchingFilms)]
  /\ UNCHANGED <<config, phoneCallMade, cyc, started>>

NextFilmInfo == ApplyExtractFilmInfo

SpecFilmInfo == InitFilmInfo /\ [][NextFilmInfo]_vars

----------------------------------------------------------------------------
(* Extraction and the condition run on their own, over every listing body of   *)
(* at most MaxMovies of the movie records of CondMovies, null records included *)

CondConfigs ==
  { Default, Legacy, BaseConfig, [Default EXCEPT !.checkCondition = "true"] }

\* movie records around the name "Ab": the name on the movie, on a nested film in
\* another case ("xAB"), on both; the value null as a movie record and as a film
\* record of the movie "Zz"
CondMovies ==
  { Movie(<<65, 98>>, Null, 0, 0, 0, <<>>),
    Movie(Null, Null, 0, 0, 0, <<Film(<<120, 65, 66>>, <<99>>, Null)>>),
    Movie(<<65, 98>>, Null, 0, 0, 0,
          <<Film(<<65, 98>>, <<99>>, Null), Film(Null, <<100>>, Null)>>),
    Movie(<<90, 122>>, Null, 0, 0, 0, <<NullFilm>>),
    NullMovie }

\* listing bodies: a list of records, no list at all, and a single record object
\* where the list is expected
CondBodies ==
  {[mvIsArray |-> TRUE, mv |-> m] : m \in SeqsUpTo(CondMovies, MaxMovies)}
    \cup { NoData,
           [mvIsArray |-> FALSE, mv |-> <<Movie(<<65, 98>>, Null, 0, 0, 0, <<>>)>>] }

CondRuns ==
  {[op |-> o, responseData |-> b, applied |-> FALSE, movies |-> <<>>,
    filmNames |-> <<>>, threw |-> FALSE, conditionMet |-> FALSE, escaped |-> FALSE] :
     o \in {"getAllFilmNames", "monitor"}, b \in CondBodies}

InitCondition ==
  /\ config \in CondConfigs
  /\ phoneCallMade = {}
  /\ cyc = [c \in Cycles |-> IdleCycle]
  /\ started = 0
  /\ fn \in CondRuns

\* getMovies, then getAllFilmNames over its result, called on their own
ApplyGetAllFilmNames ==
  /\ fn.op = "getAllFilmNames"
  /\ ~fn.applied
  /\ LET movies == getMovies(fn.responseData)
         threw == getAllFilmNamesThrows(movies)
     IN fn' = [fn EXCEPT !.applied = TRUE,
                         !.movies = movies,
                         !.threw = threw,
                         !.filmNames = IF threw THEN <<>> ELSE getAllFilmNames(movies)]
  /\ UNCHANGED <<config, phoneCallMade, cyc, started>>

\* monitor after a successful fetch: checkCondition, and when it is met getMovies
\* and getAllFilmNames again, outside any try (escaped: the error leaves monitor)
ApplyEvaluateCondition ==
  /\ fn.op = "monitor"
  /\ ~fn.applied
  /\ LET met == checkCondition(config, fn.responseData)
         movies == getMovies(fn.responseData)
         escaped == met /\ getAllFilmNamesThrows(movies)
     IN fn' = [fn EXCEPT !.applied = TRUE,
                         !.conditionMet = met,
                         !.movies = movies,
                         !.threw = getAllFilmNamesThrows(movies),
                         !.escaped = escaped,
                         !.filmNames = IF met /\ ~escaped
                                       THEN getAllFilmNames(movies) ELSE <<>>]
  /\ UNCHANGED <<config, phoneCallMade, cyc, started>>

NextCondition ==
  \/ ApplyGetAllFilmNames
  \/ ApplyEvaluateCondition

SpecCondition == InitCondition /\ [][NextCondition]_vars

----------------------------------------------------------------------------
(* The predecessor monitor, src/index.js: one endpoint, one condition, no       *)
(* keyword sets, no theatre lookups and no set of seen keys                     *)

\* getMovies of src/index.js
index_getMovies(responseData) ==
  IF responseData.mvIsArray THEN responseData.mv ELSE <<>>

\* getAllFilmNames of src/index.js reads movie.filmName and film.filmName without
\* a guard: a null record raises a TypeError
index_getAllFilmNamesThrows(movies) ==
  \E i \in DOMAIN movies :
     \/ movies[i].isNull
     \/ \E j \in DOMAIN movies[i].films : movies[i].films[j].isNull

\* getAllFilmNames of src/index.js
index_getAllFilmNames(movies) ==
  Distinct(Flatten([i \in DOMAIN movies |->
      (IF movies[i].filmName # Null THEN <<movies[i].filmName>> ELSE <<>>)
      \o SelectSeq([j \in DOMAIN movies[i].films |-> movies[i].films[j].filmName],
                LAMBDA n : n # Null)]))

\* name contains the target, in any case
index_nameMatches(name, target) == includes(toLowerCase(name), toLowerCase(target))

\* filmNames.some(name => String(name)...) stops at the first name that matches:
\* String throws when a name without a string form is reached before that
index_someThrows(filmNames, target) ==
  \E i \in DOMAIN filmNames :
     /\ ToStringThrows(filmNames[i])
     /\ \A j \in 1..(i - 1) : ~index_nameMatches(filmNames[j], target)

index_some(filmNames, target) ==
  \E i \in DOMAIN filmNames :
     ~ToStringThrows(filmNames[i]) /\ index_nameMatches(filmNames[i], target)

\* filmNames.filter(name => String(name)...) visits every name
index_filterThrows(filmNames) ==
  \E i \in DOMAIN filmNames : ToStringThrows(filmNames[i])

\* checkCondition of src/index.js: the expression handed to new Function
index_conditionToEvaluate(cfg) ==
  IF cfg.checkCondition # "" THEN cfg.checkCondition
  ELSE IF cfg.targetMovie # Null THEN "hasFilm(targetMovie)"
  ELSE "movies.length > 0"

\* checkCondition of src/index.js: the whole body is inside try, and the catch
\* returns false
index_checkCondition(cfg, responseData) ==
  LET movies == index_getMovies(responseData)
      filmNames == index_getAllFilmNames(movies)
      expr == index_conditionToEvaluate(cfg)
  IN IF index_getAllFilmNamesThrows(movies) THEN FALSE
     ELSE IF expressionThrows(expr, movies) THEN FALSE
     ELSE IF expr = "hasFilm(targetMovie)"
     THEN ~index_someThrows(filmNames, String(cfg.targetMovie))
            /\ index_some(filmNames, String(cfg.targetMovie))
     ELSE evalExpression(expr, movies, filmNames, cfg.targetMovie)

\* monitor of src/index.js, the branch of a met condition up to the message:
\* targetMovieFound is computed with some(), the matching names with filter(),
\* both outside any try
index_messageThrows(cfg, filmNames) ==
  /\ cfg.targetMovie # Null
  /\ \/ index_someThrows(filmNames, cfg.targetMovie)
     \/ index_some(filmNames, cfg.targetMovie) /\ index_filterThrows(filmNames)

\* makePhoneCall of src/index.js up to calls.create: nothing is looked up, no key
\* is taken
index_makePhoneCall(cfg) ==
  IF ~cfg.enablePhoneCall THEN "disabled"
  ELSE IF ~cfg.twilioConfigured THEN "noCredentials"
  ELSE "call"

\* MOVIE_NAME, CHECK_CONDITION, ENABLE_PHONE_CALL and the Twilio settings
index_Config(target, cond, enable, twilio) ==
  [targetMovie |-> target, checkCondition |-> cond, enablePhoneCall |-> enable,
   twilioConfigured |-> twilio]

index_Configs ==
  { index_Config(<<97, 66>>, "", TRUE, TRUE),                      \* MOVIE_NAME=aB
    index_Config(Null, "", TRUE, TRUE),                            \* nothing set
    index_Config(<<97, 66>>, "movies.length > 0", TRUE, TRUE),
    index_Config(Null, "true", FALSE, TRUE),
    index_Config(Null, "", TRUE, FALSE),
    index_Config(Null, "nowShowing > 0", TRUE, TRUE) }

\* the listing bodies the endpoint may answer with: "Ab"; "Zz"; "Ab" and a film
\* whose name is an object without a string form; that film alone; the value null
\* as a record; no movie list
index_Bodies ==
  { [mvIsArray |-> TRUE, mv |-> <<Movie(<<65, 98>>, Null, 0, 0, 0, <<>>)>>],
    [mvIsArray |-> TRUE, mv |-> <<Movie(<<90, 122>>, Null, 0, 0, 0, <<>>)>>],
    [mvIsArray |-> TRUE,
     mv |-> <<Movie(<<65, 98>>, Null, 0, 0, 0, <<Film(NoPrimitive, <<99>>, Null)>>)>>],
    [mvIsArray |-> TRUE, mv |-> <<Movie(NoPrimitive, Null, 0, 0, 0, <<>>)>>],
    [mvIsArray |-> TRUE, mv |-> <<NullMovie>>],
    NoData }

\* what pingAPI of src/index.js resolves to
index_PingResults ==
  {[success |-> TRUE, data |-> b] : b \in index_Bodies}
    \cup {[success |-> FALSE, data |-> NoData]}

\* a cycle of the predecessor that has not started; notifications: the messages
\* handed to sendTelegramNotification; delivered: what bot.sendMessage did with
\* the last of them; escalation: how makePhoneCall ended ("none": not entered)
index_IdleCycle ==
  [pc |-> "idle",
   result |-> [success |-> FALSE, data |-> NoData],
   conditionMet |-> FALSE,
   notifications |-> <<>>,
   delivered |-> "none",
   escalation |-> "none",
   inFlightAtStart |-> {}]

\* monitor of src/index.js from the return of pingAPI to its next await
index_afterPing(cfg, c0, result) ==
  LET c == [c0 EXCEPT !.result = result]
      met == index_checkCondition(cfg, result.data)
      filmNames == index_getAllFilmNames(index_getMovies(result.data))
  IN IF ~result.success
     THEN [c EXCEPT !.pc = "errNotifying", !.notifications = <<"error">>,
                    !.delivered = "pending"]
     ELSE IF ~met THEN [c EXCEPT !.pc = "done"]
     ELSE IF index_messageThrows(cfg, filmNames)
     THEN [c EXCEPT !.pc = "threw", !.conditionMet = TRUE]
     ELSE [c EXCEPT !.pc = "notifying", !.conditionMet = TRUE,
                    !.notifications = <<"update">>, !.delivered = "pending"]

\* monitor of src/index.js from the return of sendTelegramNotification (a failure
\* of bot.sendMessage is caught inside it) into makePhoneCall, up to calls.create
index_afterNotification(cfg, c0, sent) ==
  LET c == [c0 EXCEPT !.delivered = IF sent THEN "yes" ELSE "no"]
      decision == index_makePhoneCall(cfg)
  IN IF decision = "call" THEN [c EXCEPT !.pc = "calling"]
     ELSE [c EXCEPT !.pc = "done", !.escalation = decision]

index_Init ==
  /\ config \in index_Configs
  /\ phoneCallMade = {}
  /\ cyc = [c \in Cycles |-> index_IdleCycle]
  /\ started = 0
  /\ fn = NoFn

\* the startup run and every timer tick call monitor(), which runs up to the
\* await of pingAPI
index_Tick ==
  /\ Alive
  /\ started < MaxCycles
  /\ Cardinality({c \in Cycles : InFlight(cyc[c])}) < MaxInFlight
  /\ started' = started + 1
  /\ cyc' = [cyc EXCEPT ![started + 1] =
               [index_IdleCycle EXCEPT !.pc = "fetching",
                                       !.inFlightAtStart = {c \in Cycles : InFlight(cyc[c])}]]
  /\ UNCHANGED <<config, phoneCallMade, fn>>

\* pingAPI resolves
index_PingReturns(c) ==
  /\ Alive
  /\ cyc[c].pc = "fetching"
  /\ \E result \in index_PingResults :
        \E d \in unhandledRejection(index_afterPing(config, cyc[c], result)) :
           cyc' = [cyc EXCEPT ![c] = d]
  /\ UNCHANGED <<config, phoneCallMade, started, fn>>

\* sendTelegramNotification resolves after the error message: monitor returns
index_ErrorNotificationReturns(c, sent) ==
  /\ Alive
  /\ cyc[c].pc = "errNotifying"
  /\ cyc' = [cyc EXCEPT ![c] = [@ EXCEPT !.pc = "done",
                                        !.delivered = IF sent THEN "yes" ELSE "no"]]
  /\ UNCHANGED <<config, phoneCallMade, started, fn>>

\* sendTelegramNotification resolves after the update message
index_NotificationReturns(c, sent) ==
  /\ Alive
  /\ cyc[c].pc = "notifying"
  /\ cyc' = [cyc EXCEPT ![c] = index_afterNotification(config, @, sent)]
  /\ UNCHANGED <<config, phoneCallMade, started, fn>>

\* client.calls.create resolves or rejects; the rejection is caught and logged
index_CallReturns(c, ok) ==
  /\ Alive
  /\ cyc[c].pc = "calling"
  /\ cyc' = [cyc EXCEPT ![c] = [@ EXCEPT !.pc = "done",
                                        !.escalation = IF ok THEN "made" ELSE "failed"]]
  /\ UNCHANGED <<config, phoneCallMade, started, fn>>

index_Next ==
  \/ index_Tick
  \/ \E c \in Cycles : index_PingReturns(c)
  \/ \E c \in Cycles, sent \in BOOLEAN : index_ErrorNotificationReturns(c, sent)
  \/ \E c \in Cycles, sent \in BOOLEAN : index_NotificationReturns(c, sent)
  \/ \E c \in Cycles, ok \in BOOLEAN : index_CallReturns(c, ok)

SpecPredecessor == index_Init /\ [][index_Next]_vars

----------------------------------------------------------------------------
(* Vocabulary of the properties *)

\* escalation is enabled and its credentials are configured
CallsEnabled == config.enablePhoneCall /\ config.twilioConfigured

\* cycle c has placed a voice call (client.calls.create was invoked)
Called(c) == cyc[c].escalation \in {"calling", "made", "failed"}

\* cycle c has gone through makePhoneCall's entry checks
Escalated(c) == cyc[c].pc \in {"calling", "done"} /\ cyc[c].escalation # "none"

\* cycle c is past its theatre lookups and cinema check
PastLookups(c) == cyc[c].pc \in {"notifying", "calling", "done"} /\ cyc[c].result.success

\* cycle d started after cycle c had ended, and both got the same answers
SameInputsInSequence(c, d) ==
  /\ d = c + 1
  /\ cyc[c].pc = "done" /\ cyc[d].pc = "done"
  /\ c \notin cyc[d].inFlightAtStart
  /\ cyc[c].result = cyc[d].result
  /\ cyc[c].lookups = cyc[d].lookups

\* the name contains every keyword of the set, case-insensitively
Satisfies(name, keywordSet) ==
  \A k \in Range(keywordSet.kws) : includes(toLowerCase(name), toLowerCase(k))

\* the names of the cycle's unique theatres that satisfy a cinema keyword set
SatisfyingNames(c) ==
  { cyc[c].uniqueTheaters[i].name : i \in
      { j \in DOMAIN cyc[c].uniqueTheaters :
          \E k \in DOMAIN config.cinemaKeywords.sets :
             Satisfies(cyc[c].uniqueTheaters[j].name, config.cinemaKeywords.sets[k]) } }

NamesOf(theaters) == {theaters[i].name : i \in DOMAIN theaters}

\* the strings of S in ascending order of code units
SortedSeq(S) ==
  CHOOSE q \in [1..Cardinality(S) -> S] :
    /\ Range(q) = S
    /\ \A i, j \in DOMAIN q : i < j => StrLess(q[i], q[j])

\* the key of the keyword branch was computed in cycle c
KeywordKeyed(c) ==
  /\ Escalated(c)
  /\ cyc[c].keywordMatches # <<>>
  /\ cyc[c].filmCommonCodes # <<>>

\* the key of the legacy branch was computed in cycle c
LegacyKeyed(c) ==
  /\ Escalated(c)
  /\ ~(cyc[c].keywordMatches # <<>> /\ cyc[c].filmCommonCodes # <<>>)
  /\ cyc[c].targetMovieFound

----------------------------------------------------------------------------
(* C1 *)

\* C1, as stated: with escalation enabled and credentials configured, for every
\* non-null key the voice call is triggered exactly once: the first call with the key
\* triggers the voice call and records the key, every later call triggers none.
C1_ExactlyOncePerKey ==
  CallsEnabled =>
    /\ \A c, d \in Cycles :
          (c # d /\ Called(c) /\ Called(d) /\ cyc[c].matchKey # Null)
            => cyc[c].matchKey # cyc[d].matchKey
    /\ \A c \in Cycles :
          (cyc[c].pc = "done" /\ Called(c) /\ cyc[c].matchKey # Null)
            => cyc[c].matchKey \in phoneCallMade

\* C1, amended: with escalation enabled and credentials configured, makePhoneCall(k)
\* with a non-null key k triggers the voice call iff k is not in phoneCallMade when
\* it is called; k is in phoneCallMade iff a voice call for k was initiated
\* successfully, so once k is recorded every later call with k returns false
\* without triggering a voice call.
C1_OnceRecordedNeverAgain ==
  /\ [][\A c \in Cycles :
          (CallsEnabled /\ cyc[c].pc = "notifying" /\ cyc'[c].pc # "notifying"
             /\ cyc'[c].matchKey # Null)
            => /\ (cyc'[c].pc = "calling") <=> (cyc'[c].matchKey \notin phoneCallMade)
               /\ (cyc'[c].matchKey \in phoneCallMade)
                    => (cyc'[c].pc = "done" /\ cyc'[c].escalation = "repeat"
                          /\ ~cyc'[c].callMade)]_vars
  /\ [](\A k \in phoneCallMade :
          \E c \in Cycles : cyc[c].matchKey = k /\ cyc[c].callMade)
  /\ [](\A c \in Cycles :
          (cyc[c].callMade /\ cyc[c].matchKey # Null) => cyc[c].matchKey \in phoneCallMade)

\* a second call with a recorded key was suppressed
C1_Witness ==
  \E c, d \in Cycles :
     /\ CallsEnabled
     /\ cyc[c].callMade /\ cyc[c].matchKey # Null
     /\ cyc[d].pc = "done" /\ cyc[d].matchKey = cyc[c].matchKey
     /\ cyc[d].escalation = "repeat"

----------------------------------------------------------------------------
(* C2 *)

\* C2: the check of the seen-keys set and the write of the key are atomic per key,
\* so two overlapping cycles that compute the same not-yet-seen key never both have
\* passed the check and placed the voice call for it.
C2_CheckAndWriteAtomic ==
  \A c, d \in Cycles :
     (c # d /\ cyc[c].pc = "calling" /\ cyc[d].pc = "calling" /\ cyc[c].matchKey # Null)
       => cyc[c].matchKey # cyc[d].matchKey

----------------------------------------------------------------------------
(* C3 *)

\* one film keyword set that matches, no cinema keywords
OneSetMatched(c) ==
  /\ configured(config.movieKeywords) /\ Len(config.movieKeywords.sets) = 1
  /\ ~configured(config.cinemaKeywords)
  /\ cyc[c].keywordMatches # <<>>

----------------------------------------------------------------------------
(* C4 *)

\* the primary fetch of cycle c has returned a failure
FetchFailedIn(c) == cyc[c].pc \notin {"idle", "fetching"} /\ ~cyc[c].result.success

\* C4: a cycle whose primary fetch fails sends exactly one error notification and
\* ends: no condition evaluation, no film-info resolution, no theatre lookup, no voice
\* call, and no step of it changes the seen-keys set.
C4_FetchFailureEndsCycle ==
  /\ [](\A c \in Cycles :
          FetchFailedIn(c)
            => /\ cyc[c].pc \in {"errNotifying", "done"}
               /\ cyc[c].notifications = <<"error">>
               /\ ~cyc[c].condEvaluated /\ ~cyc[c].resolved
               /\ cyc[c].lookups = <<>>
               /\ cyc[c].escalation = "none" /\ cyc[c].matchKey = Null
               /\ cyc[c].keysWritten = {})
  /\ [][\A c \in Cycles :
          (cyc'[c] # cyc[c] /\ ~cyc'[c].result.success /\ cyc'[c].pc # "fetching")
            => phoneCallMade' = phoneCallMade]_vars

C4_Witness ==
  \E c \in Cycles :
     FetchFailedIn(c) /\ cyc[c].pc = "done" /\ cyc[c].notifications = <<"error">>

----------------------------------------------------------------------------
(* C5 *)

\* a film keyword set matches the listing cycle c received
FilmMatchIn(c) ==
  /\ cyc[c].pc \notin {"idle", "fetching"}
  /\ cyc[c].result.success
  /\ getMatchingKeywordSets(config, cyc[c].result.data) # <<>>

\* C5: when a film keyword set matches, cinema keywords are configured and no
\* resolved theatre satisfies a cinema keyword set, the cycle sends no notification,
\* triggers no voice call and leaves the seen-keys set unchanged.
C5_CinemaMismatchSuppresses ==
  \A c \in Cycles :
     (FilmMatchIn(c) /\ configured(config.cinemaKeywords)
        /\ cyc[c].pc # "lookup" /\ SatisfyingNames(c) = {})
       => /\ cyc[c].pc \in {"done", "threw", "crashed"}
          /\ cyc[c].notifications = <<>>
          /\ cyc[c].escalation = "none"
          /\ cyc[c].keysWritten = {}

\* theatres were resolved and none satisfies the cinema keywords
C5_Witness ==
  \E c \in Cycles :
     /\ FilmMatchIn(c) /\ configured(config.cinemaKeywords)
     /\ cyc[c].pc = "done"
     /\ cyc[c].uniqueTheaters # <<>> /\ SatisfyingNames(c) = {}
     /\ cyc[c].notifications = <<>>

----------------------------------------------------------------------------
(* C6 *)

\* C6: with cinema keywords configured, matchingTheaters holds exactly the unique
\* theatres whose name satisfies a cinema keyword set, in their order, and the
\* theatre part of the key is built from exactly those names.
C6_MatchingTheatersExact ==
  \A c \in Cycles :
     (PastLookups(c) /\ cyc[c].keywordMatches # <<>> /\ configured(config.cinemaKeywords))
       => /\ cyc[c].cinemaMatchResult.matchingTheaters
               = SelectSeq(cyc[c].uniqueTheaters,
                           LAMBDA t : t.name \in SatisfyingNames(c))
          /\ KeywordKeyed(c)
               => cyc[c].matchKey
                    = join(SortedSeq(Range(cyc[c].filmCommonCodes)), <<44>>) \o <<124>>
                        \o join(SortedSeq(SatisfyingNames(c)), <<44>>)

\* of the theatres "x" and "Y" only "Y" matches, and the key ends in "|Y"
C6_Witness ==
  \E c \in Cycles :
     /\ configured(config.cinemaKeywords) /\ KeywordKeyed(c)
     /\ NamesOf(cyc[c].uniqueTheaters) = {<<120>>, <<89>>}
     /\ NamesOf(cyc[c].cinemaMatchResult.matchingTheaters) = {<<89>>}
     /\ cyc[c].matchKey = <<99, 44, 100, 124, 89>>

----------------------------------------------------------------------------
(* C7 *)

\* C7: two situations that differ in the set of film identifiers or in the set of
\* matching theatre names have different keys.
C7_KeyInjective ==
  \A c, d \in Cycles :
     (KeywordKeyed(c) /\ KeywordKeyed(d) /\ cyc[c].matchKey = cyc[d].matchKey)
       => /\ Range(cyc[c].filmCommonCodes) = Range(cyc[d].filmCommonCodes)
          /\ NamesOf(cyc[c].cinemaMatchResult.matchingTheaters)
               = NamesOf(cyc[d].cinemaMatchResult.matchingTheaters)

----------------------------------------------------------------------------
(* C8 *)

CodesPart(c) == join(SortedSeq(Range(cyc[c].filmCommonCodes)), <<44>>)

MatchingNames(c) ==
  IF configured(config.cinemaKeywords) THEN SatisfyingNames(c)
  ELSE NamesOf(cyc[c].uniqueTheaters)

----------------------------------------------------------------------------
(* C9 *)

\* C9, as stated: in a notifying cycle without a resolved film identifier no key is
\* computed and the voice call is triggered, whatever the seen-keys set holds.
C9_NoIdentifierNoKey ==
  \A c \in Cycles :
     (Escalated(c) /\ cyc[c].filmCommonCodes = <<>>)
       => /\ cyc[c].matchKey = Null
          /\ CallsEnabled => Called(c)

\* C9, amended: in a notifying cycle in which no film identifier was resolved and the
\* legacy target name was not found in a film name, no key is computed and, with
\* escalation enabled and credentials configured, the voice call is triggered without
\* writing the seen-keys set, in every such cycle; when the target name was found the
\* key is 'legacy|' and the target name, and the call is deduplicated by it.
C9_NoIdentifierNoTargetNoKey ==
  \A c \in Cycles :
     (Escalated(c) /\ cyc[c].filmCommonCodes = <<>>)
       => IF cyc[c].targetMovieFound
          THEN cyc[c].matchKey = <<108, 101, 103, 97, 99, 121, 124>> \o config.targetMovie
          ELSE /\ cyc[c].matchKey = Null
               /\ CallsEnabled => (Called(c) /\ cyc[c].keysWritten = {})

\* two cycles without identifier both called, the first call having succeeded
C9_Witness ==
  \E c, d \in Cycles :
     /\ c < d /\ CallsEnabled
     /\ cyc[c].filmCommonCodes = <<>> /\ cyc[d].filmCommonCodes = <<>>
     /\ cyc[c].result = cyc[d].result
     /\ cyc[c].callMade /\ cyc[c].matchKey = Null
     /\ Called(d) /\ cyc[d].matchKey = Null
     /\ phoneCallMade = {}

----------------------------------------------------------------------------
(* C10 *)

\* C10: checkKeywordSets returns no entry with an empty list of matching names; it
\* returns, in the order of the configuration, one entry for each set that matches at
\* least one name, with that set, its matching names and its (0-based) position.
C10_NoEmptyMatchInOrder ==
  (fn.op = "checkKeywordSets" /\ fn.applied) =>
    LET sets == fn.keywordSets.sets
        hit == {j \in DOMAIN sets : checkKeywordSet(sets[j], fn.filmNames) # <<>>}
    IN /\ \A i \in DOMAIN fn.out :
             /\ fn.out[i].matchingFilms # <<>>
             /\ fn.out[i].setIndex + 1 \in hit
             /\ fn.out[i].keywordSet = sets[fn.out[i].setIndex + 1]
             /\ fn.out[i].matchingFilms
                  = checkKeywordSet(sets[fn.out[i].setIndex + 1], fn.filmNames)
       /\ \A i, k \in DOMAIN fn.out : i < k => fn.out[i].setIndex < fn.out[k].setIndex
       /\ {fn.out[i].setIndex + 1 : i \in DOMAIN fn.out} = hit

\* the first set matches nothing and is omitted; the second is returned with index 1
C10_Witness ==
  /\ fn.op = "checkKeywordSets" /\ fn.applied
  /\ Len(fn.keywordSets.sets) = 2
  /\ checkKeywordSet(fn.keywordSets.sets[1], fn.filmNames) = <<>>
  /\ Len(fn.out) = 1
  /\ fn.out[1].setIndex = 1

----------------------------------------------------------------------------
(* C11 *)

\* C11: checkKeywordSet returns, in their order, exactly the names whose lower-cased
\* form contains every lower-cased keyword of the set as a substring; an empty or
\* non-list set returns no name; a configuration matches (checkKeywordSets returns an
\* entry) iff at least one of its sets returns at least one name.
C11_AllKeywordsAnySet ==
  /\ (fn.op = "checkKeywordSet" /\ fn.applied) =>
        LET set == fn.keywordSets.sets[1]
        IN IF ~set.isArray \/ set.kws = <<>> THEN fn.out = <<>>
           ELSE fn.out = SelectSeq(fn.filmNames, LAMBDA n : Satisfies(n, set))
  /\ (fn.op = "checkKeywordSets" /\ fn.applied) =>
        ((fn.out # <<>>) <=>
           \E i \in DOMAIN fn.keywordSets.sets :
              /\ fn.keywordSets.sets[i].isArray
              /\ fn.keywordSets.sets[i].kws # <<>>
              /\ \E n \in Range(fn.filmNames) : Satisfies(n, fn.keywordSets.sets[i]))

\* ["a","B"] on the names "Ab", "aZ": only "Ab" holds both keywords, in either case
C11_Witness ==
  /\ fn.op = "checkKeywordSet" /\ fn.applied
  /\ fn.keywordSets.sets[1] = KwSet(<<<<97>>, <<66>>>>)
  /\ fn.filmNames = <<<<97, 90>>, <<65, 98>>>>
  /\ fn.out = <<<<65, 98>>>>

----------------------------------------------------------------------------
(* C12 *)

\* C12: with cinema keywords configured, checkCinemaKeywords reports the theatres and
\* the set indexes that checkKeywordSets reports for the theatre names under the same
\* configuration, and it is matched iff checkKeywordSets returns an entry; in
\* particular an empty or non-list set matches no theatre.
C12_CinemaMatcherIsFilmMatcher ==
  (fn.op = "checkCinemaKeywords" /\ fn.applied /\ configured(fn.keywordSets)) =>
    LET reported == checkKeywordSets(fn.keywordSets, fn.filmNames)
    IN /\ ~fn.threw
       /\ NamesOf(fn.out.matchingTheaters)
            = UNION {Range(reported[i].matchingFilms) : i \in DOMAIN reported}
       /\ {fn.out.matchedSets[i].setIndex : i \in DOMAIN fn.out.matchedSets}
            = {reported[i].setIndex : i \in DOMAIN reported}
       /\ fn.out.matched <=> (reported # <<>>)

----------------------------------------------------------------------------
(* C13 *)

\* C13: convertReleaseDateToAPIFormat returns a string of the form YYYY-MM-DD
\* unchanged, and for every input whose result r is not null, normalizing r again
\* returns r.
C13_NormalizationIdempotent ==
  (fn.op = "convertReleaseDateToAPIFormat") =>
    /\ (fn.step >= 1 /\ IsCanonical(fn.str)) => fn.out = fn.str
    /\ (fn.step = 2) => fn.out2 = fn.out

----------------------------------------------------------------------------
(* C14 *)

\* C14: for every film identifier whose release date is absent or cannot be
\* normalized, the secondary theatre lookup is sent with dated equal to today's date.
C14_TodayWhenUnresolvable ==
  (fn.op = "fetchTheaterListings" /\ fn.step = 1 /\ (fn.str = Null \/ fn.out = Null))
    => fn.dated = formatDateFromParts(fn.today.year, fn.today.month, fn.today.day)

\* the release date "soon" on 14 November 2025: the lookup is dated "2025-11-14"
C14_Witness ==
  /\ fn.op = "fetchTheaterListings" /\ fn.step = 1
  /\ fn.str = <<115, 111, 111, 110>>
  /\ fn.out = Null
  /\ fn.today = [year |-> 2025, month |-> 11, day |-> 14]
  /\ fn.dated = Date1

----------------------------------------------------------------------------
(* C15 *)

\* the year, month and day written in a string "Y-M-D"
DateValue(r) ==
  LET dashes == {i \in DOMAIN r : r[i] = 45}
      d1 == CHOOSE i \in dashes : \A j \in dashes : i <= j
      d2 == CHOOSE i \in dashes : \A j \in dashes : j <= i
  IN [year |-> Num(SubSeq(r, 1, d1 - 1)),
      month |-> Num(SubSeq(r, d1 + 1, d2 - 1)),
      day |-> Num(SubSeq(r, d2 + 1, Len(r)))]

\* day a lies before day b in the calendar
Before(a, b) ==
  \/ a.year < b.year
  \/ a.year = b.year /\ a.month < b.month
  \/ a.year = b.year /\ a.month = b.month /\ a.day < b.day

TodayString == formatDateFromParts(fn.today.year, fn.today.month, fn.today.day)

----------------------------------------------------------------------------
(* C16 *)

\* C16: when a date string is not already canonical and generic calendar parsing
\* does not yield a valid date, the result is the canonical date the months table
\* gives for the 'MonthName Day, Year' form, and null only when that pattern fails.
C16_MonthTableAfterFailedParse ==
  (fn.op = "convertReleaseDateToAPIFormat" /\ fn.step = 1
     /\ fn.str # Null /\ ~IsCanonical(fn.str) /\ fn.date.kind = "invalid")
    => fn.out = monthTableFallback(fn.str)

----------------------------------------------------------------------------
(* C17 *)

\* the (code, date) pairs of the matching occurrences, in traversal order
InfoOccurrences ==
  Flatten([i \in DOMAIN fn.movies |-> movieOccurrences(fn.movies[i], fn.matchingFilms)])

\* C17: extractFilmInfo returns exactly one entry for each film identifier that
\* occurs, and the entry's release date is the first non-null date found for the
\* identifier over its occurrences in traversal order; it is null only if every
\* occurrence resolved to null.
C17_FirstNonNullDateWins ==
  (fn.op = "extractFilmInfo" /\ fn.applied) =>
    LET occs == InfoOccurrences
        dated(code) == {i \in DOMAIN occs : occs[i].code = code /\ occs[i].releaseDate # Null}
    IN /\ \A i, j \in DOMAIN fn.out : fn.out[i].code = fn.out[j].code => i = j
       /\ {fn.out[i].code : i \in DOMAIN fn.out} = {occs[i].code : i \in DOMAIN occs}
       /\ \A i \in DOMAIN fn.out :
             IF dated(fn.out[i].code) = {} THEN fn.out[i].releaseDate = Null
             ELSE \E k \in dated(fn.out[i].code) :
                     /\ \A l \in dated(fn.out[i].code) : k <= l
                     /\ fn.out[i].releaseDate = occs[k].releaseDate

\* "c" is offered no date, "2025-11-14", no date, "2025-11-14" and then "2025-11-15",
\* "d" no date: the result is "c" with "2025-11-14" and "d" without date
C17_Witness ==
  /\ fn.op = "extractFilmInfo" /\ fn.applied
  /\ [i \in DOMAIN InfoOccurrences |-> InfoOccurrences[i].releaseDate]
       = <<Null, Date1, Null, Date1, Date2, Null>>
  /\ fn.out = << [code |-> <<99>>, releaseDate |-> Date1],
                 [code |-> <<100>>, releaseDate |-> Null] >>

----------------------------------------------------------------------------
(* C18 *)

\* C18: the seen-keys set only grows: no step of any cycle removes a key from
\* phoneCallMade, so a key that is in it stays in it, and every key a cycle has
\* written is still in it.
C18_SeenKeysOnlyGrow ==
  /\ [][phoneCallMade \subseteq phoneCallMade']_vars
  /\ [](\A c \in Cycles : cyc[c].keysWritten \subseteq phoneCallMade)

\* a second key was written while the first was kept
C18_Witness ==
  \E c, d \in Cycles :
     /\ c # d
     /\ cyc[c].keysWritten # {} /\ cyc[d].keysWritten # {}
     /\ cyc[c].keysWritten # cyc[d].keysWritten
     /\ cyc[c].keysWritten \cup cyc[d].keysWritten \subseteq phoneCallMade

----------------------------------------------------------------------------
(* C19 *)

\* the listing of cycle c has arrived
Fetched(c) == cyc[c].pc \notin {"idle", "fetching"} /\ cyc[c].result.success

\* the evaluation of CHECK_CONDITION fails on the listing of cycle c: the expression
\* does not compile, names a missing identifier, or reads movies[0] of no movie
EvaluationFails(c) ==
  /\ Fetched(c)
  /\ \/ config.checkCondition \in {"movies.length >", "nowShowing > 0"}
     \/ /\ config.checkCondition = "movies[0].year > 0"
        /\ getMovies(cyc[c].result.data) = <<>>

\* C19: a cycle in which the evaluation of the condition expression fails takes the
\* condition as not met: it ends without notification, theatre lookup or voice call
\* and without writing the seen-keys set; the failure keeps no later tick from
\* starting a cycle, and a later cycle whose evaluation succeeds with true notifies.
C19_EvaluationFailureIsNotMet ==
  /\ [](\A c \in Cycles :
          EvaluationFails(c)
            => /\ cyc[c].pc = "done"
               /\ cyc[c].condEvaluated /\ ~cyc[c].conditionMet
               /\ cyc[c].notifications = <<>>
               /\ cyc[c].lookups = <<>>
               /\ cyc[c].escalation = "none"
               /\ cyc[c].keysWritten = {})
  /\ [](\A c \in Cycles :
          (EvaluationFails(c) /\ started = c /\ c < MaxCycles) => ENABLED Tick)
  /\ [](\A c \in Cycles :
          (Fetched(c) /\ config.checkCondition = "movies[0].year > 0"
             /\ getMovies(cyc[c].result.data) # <<>>
             /\ getMovies(cyc[c].result.data)[1].year > 0)
            => (cyc[c].conditionMet /\ cyc[c].notifications = <<"update">>))

\* the evaluation failed in the first cycle, the second cycle notified
C19_Witness ==
  /\ EvaluationFails(1) /\ cyc[1].pc = "done" /\ cyc[1].notifications = <<>>
  /\ 1 \notin cyc[2].inFlightAtStart
  /\ Fetched(2) /\ ~EvaluationFails(2)
  /\ cyc[2].notifications = <<"update">>

----------------------------------------------------------------------------
(* C20 *)

\* C20, as stated: whenever movie keyword sets are configured, the cycle's match
\* decision is the keyword-set match and no expression is evaluated.
C20_NoExpressionWithKeywordSets ==
  \A c \in Cycles :
     (Fetched(c) /\ configured(config.movieKeywords))
       => /\ cyc[c].evaluated = ""
          /\ cyc[c].conditionMet <=> FilmMatchIn(c)

\* C20, amended: the expression evaluator is used exactly when CHECK_CONDITION is set
\* or no movie keyword sets are configured.  With movie keyword sets configured and
\* CHECK_CONDITION not set, no expression is evaluated and the decision is the
\* keyword-set match; with CHECK_CONDITION set, that expression is evaluated and
\* decides, also when movie keyword sets are configured.
C20_ExpressionWhenConditionSet ==
  \A c \in Cycles :
     Fetched(c)
       => /\ cyc[c].condEvaluated
          /\ (cyc[c].evaluated # "")
               <=> (config.checkCondition # "" \/ ~configured(config.movieKeywords))
          /\ (config.checkCondition = "" /\ configured(config.movieKeywords))
               => (cyc[c].conditionMet <=> FilmMatchIn(c))
          /\ (config.checkCondition # "") => cyc[c].evaluated = config.checkCondition
          /\ (config.checkCondition = "true") => cyc[c].conditionMet

\* keyword sets are configured and match nothing; CHECK_CONDITION=true was evaluated
\* and the cycle notified
C20_Witness ==
  \E c \in Cycles :
     /\ Fetched(c) /\ configured(config.movieKeywords)
     /\ ~FilmMatchIn(c)
     /\ cyc[c].evaluated = "true"
     /\ cyc[c].conditionMet
     /\ cyc[c].notifications = <<"update">>

\* the names the records of a movie list carry: the name of every movie record
\* and of every nested film record that has one
RecordNames(movies) ==
  ({movies[i].filmName : i \in {k \in DOMAIN movies : ~movies[k].isNull}}
     \cup UNION {{movies[i].films[j].filmName :
                    j \in {k \in DOMAIN movies[i].films : ~movies[i].films[k].isNull}} :
                 i \in {k \in DOMAIN movies : ~movies[k].isNull}})
    \ {Null}

\* CHECK_CONDITION and MOVIE_KEYWORDS are both not set
DefaultCondition == config.checkCondition = "" /\ ~configured(config.movieKeywords)

\* the default condition as the README words it: some movie when MOVIE_NAME is
\* not set, some film name containing MOVIE_NAME in any case when it is
DefaultHolds(movies) ==
  IF config.targetMovie = Null
  THEN movies # <<>>
  ELSE \E n \in RecordNames(movies) :
          includes(toLowerCase(n), toLowerCase(config.targetMovie))

\* C21: with neither an expression nor keyword sets configured, the condition is
\* met exactly when the movie list is not empty (no target name), or when some
\* film name contains the target name in any case (legacy target name only).
\* Violated: a null record in the list makes getAllFilmNames throw inside
\* checkCondition, which then answers false whatever the other records hold
C21_DefaultConditions ==
  (fn.op = "monitor" /\ fn.applied /\ DefaultCondition)
    => (fn.conditionMet <=> DefaultHolds(getMovies(fn.responseData)))

\* C21: the default conditions for every listing whose records are all present
C21_DefaultConditionsOnRecords ==
  (/\ fn.op = "monitor" /\ fn.applied /\ DefaultCondition
   /\ ~getAllFilmNamesThrows(getMovies(fn.responseData)))
    => (fn.conditionMet <=> DefaultHolds(getMovies(fn.responseData)))

\* cycle c ended in an exception that nothing caught
Threw(c) == cyc[c].pc \in {"threw", "crashed"}

\* C22: no error inside a cycle stops the scheduler: whatever the listing and
\* theatre responses, the keyword configuration and the outcome of the
\* notification and the voice call, no cycle ends in an uncaught exception and the
\* process stays alive for the next tick.
\* Violated: monitor has no try/catch, and a theatre name that has no string form
\* raises a TypeError in it
C22_NoErrorStopsScheduler ==
  /\ \A c \in Cycles : ~Threw(c)
  /\ Alive

\* C22: a cycle ends in an exception only when a theatre name of a successful
\* lookup has no string form
C22_OnlyUnprintableNamesThrow ==
  \A c \in Cycles : Threw(c) => theaterNameThrows(cyc[c].allTheaterNames)

\* the loop over the film identifiers of cycle c has ended
LookupsEnded(c) ==
  /\ cyc[c].pc \notin {"idle", "fetching", "lookup"}
  /\ cyc[c].keywordMatches # <<>>

\* C23: a failed theatre lookup for one identifier does not end the cycle: every
\* identifier gets its lookup, in order, whatever the earlier lookups returned, and
\* every named theatre of every successful lookup is in the cycle's collection,
\* while a failed lookup adds nothing.
C23_FailedLookupIsSkipped ==
  \A c \in Cycles :
     /\ LookupsEnded(c) => Len(cyc[c].lookups) = Len(cyc[c].filmInfo)
     /\ cyc[c].pc = "lookup" => Len(cyc[c].lookups) < Len(cyc[c].filmInfo)
     /\ \A i \in DOMAIN cyc[c].lookups :
           cyc[c].lookups[i].success =>
              \A j \in DOMAIN cyc[c].lookups[i].data.sessions :
                 \E t \in DOMAIN cyc[c].allTheaterNames :
                    /\ cyc[c].allTheaterNames[t].name =
                         cyc[c].lookups[i].data.sessions[j].name
                    /\ cyc[c].allTheaterNames[t].theatreId =
                         cyc[c].lookups[i].data.sessions[j].theatreId
     /\ (\A i \in DOMAIN cyc[c].lookups : ~cyc[c].lookups[i].success)
           => cyc[c].allTheaterNames = <<>>

\* the first of two lookups failed, the second was made and its theatres collected
C23_Witness ==
  \E c \in Cycles :
     /\ LookupsEnded(c)
     /\ Len(cyc[c].filmInfo) = 2
     /\ ~cyc[c].lookups[1].success
     /\ cyc[c].lookups[2].success
     /\ cyc[c].allTheaterNames # <<>>

\* C24: extraction never fails: getMovies returns the nested movie list when it is
\* a list and the empty list for every other shape; the names of a list are each
\* returned once, however many records carry them; and no error of the name
\* extraction leaves the cycle (an error raised on a null record is caught inside
\* checkCondition, and monitor extracts the names itself only when the condition
\* was met, which it is not after such an error).
C24_ExtractionNeverFails ==
  /\ (fn.op \in {"getAllFilmNames", "monitor"} /\ fn.applied)
       => fn.movies = (IF fn.responseData.mvIsArray THEN fn.responseData.mv ELSE <<>>)
  /\ (fn.op = "getAllFilmNames" /\ fn.applied /\ ~fn.threw)
       => /\ \A i, j \in DOMAIN fn.filmNames :
                fn.filmNames[i] = fn.filmNames[j] => i = j
          /\ Range(fn.filmNames) = RecordNames(fn.movies)
  /\ (fn.op = "monitor" /\ fn.applied)
       => /\ ~fn.escaped
          /\ fn.threw => ~fn.conditionMet

\* a list with a null record next to a record named "Ab", under a condition that
\* is an expression: the error stays inside checkCondition
C24_Witness ==
  /\ fn.op = "monitor" /\ fn.applied
  /\ config.checkCondition = "true"
  /\ fn.responseData.mvIsArray
  /\ Len(fn.movies) = 2 /\ fn.movies[1].filmName = <<65, 98>> /\ fn.movies[2].isNull
  /\ fn.threw /\ ~fn.escaped

\* cycle c has reached the notifying step: its fetch succeeded, its condition was
\* met, its lookups have ended without an exception, and cinema keywords are not
\* in play (no keyword-set match, or none configured) or a theatre satisfies them
NotifyingReached(c) ==
  /\ Fetched(c) /\ cyc[c].conditionMet
  /\ cyc[c].pc \in {"notifying", "calling", "done"}
  /\ \/ cyc[c].keywordMatches = <<>>
     \/ ~configured(config.cinemaKeywords)
     \/ SatisfyingNames(c) # {}

C26_NotificationFailureNotFatal ==
  [][\A c \in Cycles :
       (cyc[c].pc = "notifying" /\ cyc'[c] # cyc[c])
         => /\ cyc'[c].pc \in {"calling", "done"}
            /\ cyc'[c].escalation # "none"
            /\ cyc'[c].pc = "calling"
                 <=> (CallsEnabled /\ (cyc'[c].matchKey = Null
                                         \/ cyc'[c].matchKey \notin phoneCallMade))
            /\ cyc'[c].escalation = "repeat"
                 <=> (CallsEnabled /\ cyc'[c].matchKey # Null
                                    /\ cyc'[c].matchKey \in phoneCallMade)]_vars

\* the update message of a cycle failed and the cycle is placing its voice call
C26_Witness ==
  \E c \in Cycles : cyc[c].pc = "calling" /\ cyc[c].notifyFailed

\* the condition of the configuration holds of the listing cycle c received: the
\* expression CHECK_CONDITION when it is set (it fails, and so does not hold, for
\* the expressions that do not evaluate); else some name satisfying a film keyword
\* set; else some name containing MOVIE_NAME; else some movie
ConditionHolds(c) ==
  LET movies == getMovies(cyc[c].result.data)
      names == RecordNames(movies)
  IN CASE config.checkCondition = "true" -> TRUE
       [] config.checkCondition = "movies[0].year > 0" ->
            movies # <<>> /\ movies[1].year > 0
       [] config.checkCondition \in {"movies.length >", "nowShowing > 0"} -> FALSE
       [] config.checkCondition = "" ->
            IF configured(config.movieKeywords)
            THEN \E k \in DOMAIN config.movieKeywords.sets : \E n \in names :
                    /\ config.movieKeywords.sets[k].kws # <<>>
                    /\ Satisfies(n, config.movieKeywords.sets[k])
            ELSE IF config.targetMovie # Null
            THEN \E n \in names : includes(toLowerCase(n), toLowerCase(config.targetMovie))
            ELSE movies # <<>>

\* cycle c ended without a match
NoMatchIn(c) == Fetched(c) /\ ~ConditionHolds(c)

\* cycle c found a film but no theatre that satisfies the cinema keywords
CinemaSkippedIn(c) ==
  /\ FilmMatchIn(c) /\ configured(config.cinemaKeywords)
  /\ cyc[c].pc # "lookup" /\ SatisfyingNames(c) = {}

\* C27: the voice call is placed at most once in a cycle, and only from the
\* notifying step of a cycle whose fetch succeeded and whose condition was met,
\* after its one update message; a cycle that ends without a match, with a failed
\* fetch or skipped for the cinema keywords never places it.
C27_CallOnlyAfterNotification ==
  /\ [](\A c \in Cycles :
          /\ Called(c) => /\ Fetched(c) /\ ConditionHolds(c)
                          /\ cyc[c].notifications = <<"update">>
                          /\ cyc[c].pc \in {"calling", "done"}
          /\ (NoMatchIn(c) \/ FetchFailedIn(c) \/ CinemaSkippedIn(c)) => ~Called(c))
  /\ [][\A c \in Cycles :
          /\ (Called(c)' /\ ~Called(c))
               => (cyc[c].pc = "notifying" /\ cyc'[c].pc = "calling")
          /\ (Called(c) /\ cyc'[c] # cyc[c])
               => (cyc[c].pc = "calling" /\ cyc'[c].pc = "done")]_vars

\* a cycle has placed its call and ended, and a cycle skipped for the cinema
\* keywords has ended without one
C27_Witness ==
  \E c, d \in Cycles :
     /\ cyc[c].pc = "done" /\ Called(c)
     /\ cyc[d].pc = "done" /\ CinemaSkippedIn(d) /\ cyc[d].uniqueTheaters # <<>>
     /\ CallsEnabled

\* C28: a cycle whose fetch succeeds and whose condition is not met sends nothing:
\* no notification, no film-info resolution, no theatre lookup, no voice call and
\* no key, and its steps leave the seen-keys set as it is.
C28_NoMatchSendsNothing ==
  /\ [](\A c \in Cycles :
          NoMatchIn(c)
            => /\ cyc[c].pc = "done"
               /\ cyc[c].condEvaluated /\ ~cyc[c].conditionMet
               /\ cyc[c].notifications = <<>>
               /\ ~cyc[c].resolved /\ cyc[c].lookups = <<>>
               /\ cyc[c].escalation = "none" /\ cyc[c].matchKey = Null
               /\ cyc[c].keysWritten = {})
  /\ [][\A c \in Cycles :
          (cyc'[c] # cyc[c] /\ NoMatchIn(c)') => phoneCallMade' = phoneCallMade]_vars

\* a listing with a film that the configuration does not track was received after
\* a key had been recorded, and the cycle ended with nothing sent
C28_Witness ==
  \E c \in Cycles :
     /\ NoMatchIn(c) /\ cyc[c].pc = "done"
     /\ getMovies(cyc[c].result.data) # <<>>
     /\ phoneCallMade # {}

\* cycle c is on the keyword branch without cinema keywords and past its lookups
AllTheatresCase(c) ==
  /\ cyc[c].keywordMatches # <<>>
  /\ ~configured(config.cinemaKeywords)
  /\ cyc[c].pc \in {"notifying", "calling", "done"}

ReturnedTheaters(c) ==
  Flatten([i \in DOMAIN cyc[c].lookups |->
     IF cyc[c].lookups[i].success /\ cyc[c].lookups[i].data.sessionsIsArray
     THEN SelectSeq(cyc[c].lookups[i].data.sessions, LAMBDA x : x.name # Null)
     ELSE <<>>])

\* C30: the unique theatre set of a cycle has exactly one theatre for each name
\* among the theatres of its successful lookups, and the record kept for a name
\* is the last one returned with it.
C30_OneTheatrePerNameLastWins ==
  \A c \in Cycles :
     LookupsEnded(c)
       => LET unique == cyc[c].uniqueTheaters
              returned == ReturnedTheaters(c)
          IN /\ \A i, j \in DOMAIN unique : unique[i].name = unique[j].name => i = j
             /\ NamesOf(unique) = NamesOf(returned)
             /\ \A i \in DOMAIN unique :
                   \E k \in DOMAIN returned :
                      /\ returned[k].name = unique[i].name
                      /\ returned[k].theatreId = unique[i].theatreId
                      /\ \A l \in DOMAIN returned :
                            returned[l].name = unique[i].name => l <= k

\* two lookups returned the name "x" with different records (theatreId 1, then 3):
\* the set holds two theatres and the record of "x" is the later one
C30_Witness ==
  \E c \in Cycles :
     /\ LookupsEnded(c)
     /\ Len(ReturnedTheaters(c)) = 3
     /\ Len(cyc[c].uniqueTheaters) = 2
     /\ \E i \in DOMAIN cyc[c].uniqueTheaters :
           /\ cyc[c].uniqueTheaters[i].name = <<120>>
           /\ cyc[c].uniqueTheaters[i].theatreId = 3

----------------------------------------------------------------------------
(* C31 *)

\* film j of movie i is recorded: it has an identifier, and the movie's own name
\* or the film's name is in the matched set
RecordedFrom(i, j) ==
  LET movie == fn.movies[i]
      film == movie.films[j]
  IN /\ film.filmCommonCode # Null
     /\ \/ movie.filmName # Null /\ movie.filmName \in Range(fn.matchingFilms)
        \/ film.filmName # Null /\ film.filmName \in Range(fn.matchingFilms)

\* the (movie, film) places of the records extractFilmInfo was given
InfoPlaces ==
  UNION {{<<i, j>> : j \in DOMAIN fn.movies[i].films} : i \in DOMAIN fn.movies}

\* the date by priority: the film's, else the movie's, else the one assembled
\* from year, month and day when all three are there, else none
PriorityDate(i, j) ==
  LET movie == fn.movies[i]
      film == movie.films[j]
  IN IF film.releaseDate # Null THEN film.releaseDate
     ELSE IF movie.releaseDate # Null THEN movie.releaseDate
     ELSE IF movie.year # 0 /\ movie.month # 0 /\ movie.day # 0
     THEN formatDateFromParts(movie.year, movie.month, movie.day)
     ELSE Null

\* place p comes before place q in the traversal
PlaceBefore(p, q) == p[1] < q[1] \/ (p[1] = q[1] /\ p[2] <= q[2])

\* C31: identifiers are recorded only from the films of a movie record whose own
\* name is in the matched set and from the films whose own name is in it; the date
\* resolved for such an occurrence is the film's release date if present, else the
\* movie's, else the date assembled from the movie's year, month and day, else
\* null, and the entry of an identifier carries the date so resolved for its first
\* occurrence that has one.
C31_DateByPriority ==
  (fn.op = "extractFilmInfo" /\ fn.applied) =>
    LET recorded == {p \in InfoPlaces : RecordedFrom(p[1], p[2])}
        codeOf(p) == fn.movies[p[1]].films[p[2]].filmCommonCode
        dated(code) == {p \in recorded : codeOf(p) = code /\ PriorityDate(p[1], p[2]) # Null}
    IN /\ {fn.out[i].code : i \in DOMAIN fn.out} = {codeOf(p) : p \in recorded}
       /\ \A i \in DOMAIN fn.out :
             IF dated(fn.out[i].code) = {} THEN fn.out[i].releaseDate = Null
             ELSE \E p \in dated(fn.out[i].code) :
                     /\ \A q \in dated(fn.out[i].code) : PlaceBefore(p, q)
                     /\ fn.out[i].releaseDate = PriorityDate(p[1], p[2])

\* the record with all three dates, alone: "c" gets its film's "2025-11-15", "d"
\* the movie's "2025-11-14", and the date of 2025, 3, 7 is not used
C31_Witness ==
  /\ fn.op = "extractFilmInfo" /\ fn.applied
  /\ Len(fn.movies) = 1
  /\ fn.movies[1].releaseDate = Date1 /\ fn.movies[1].year = 2025
  /\ fn.out = << [code |-> <<99>>, releaseDate |-> Date2],
                 [code |-> <<100>>, releaseDate |-> Date1] >>

----------------------------------------------------------------------------
(* C32 *)

\* the voice call of cycle c for the key k was initiated
CallMadeFor(c, k) == cyc[c].escalation = "made" /\ cyc[c].matchKey = k

\* C32: a key is in the seen-keys set only if a voice call for it was initiated:
\* the set changes only in the step in which calls.create resolves, and then by the
\* key of that cycle; a failed attempt, disabled escalation and missing credentials
\* leave it as it is, so a cycle is suppressed as a repeat only after a call for
\* its key was initiated, never after a failed one alone.
C32_KeyOnlyAfterInitiatedCall ==
  /\ [](/\ \A k \in phoneCallMade : \E c \in Cycles : CallMadeFor(c, k)
        /\ ~CallsEnabled => phoneCallMade = {}
        /\ \A d \in Cycles :
              cyc[d].escalation = "repeat"
                => \E c \in Cycles : c # d /\ CallMadeFor(c, cyc[d].matchKey))
  /\ [][\A c \in Cycles :
          (cyc'[c] # cyc[c] /\ cyc'[c].escalation \in {"failed", "disabled", "noCredentials"})
            => phoneCallMade' = phoneCallMade]_vars

\* the call of a cycle failed, and a later cycle with the same key placed the call
\* again
C32_Witness ==
  \E c, d \in Cycles :
     /\ c < d /\ c \notin cyc[d].inFlightAtStart
     /\ cyc[c].escalation = "failed"
     /\ cyc[c].matchKey # Null /\ cyc[d].matchKey = cyc[c].matchKey
     /\ Called(d)

----------------------------------------------------------------------------
(* C33 *)

\* monitor of the predecessor has returned or ended in an exception
index_Ended(c) == cyc[c].pc \in {"done", "threw", "crashed"}

\* the fetch of cycle c succeeded and checkCondition returned true for its body
index_MetIn(c) ==
  cyc[c].result.success /\ index_checkCondition(config, cyc[c].result.data)

\* makePhoneCall was entered in cycle c
index_CallAttempted(c) == cyc[c].escalation # "none" \/ cyc[c].pc = "calling"

\* C33: in the predecessor every cycle whose fetch succeeds and whose condition is
\* met sends one notification and then attempts the voice call, whatever earlier
\* cycles did, and a cycle whose fetch fails sends only the error notification.
C33_EveryMetCycleNotifiesAndCalls ==
  \A c \in Cycles :
     index_Ended(c) =>
        /\ index_MetIn(c) =>
              /\ cyc[c].notifications = <<"update">>
              /\ cyc[c].escalation # "none"
        /\ ~cyc[c].result.success =>
              /\ cyc[c].notifications = <<"error">>
              /\ cyc[c].escalation = "none"

\* what holds of the predecessor: a cycle that returns (pc "done") after a
\* successful fetch and a met condition has sent the one update and entered
\* makePhoneCall after it; a failed fetch sends the error message alone; an unmet
\* condition sends nothing; no state is kept between cycles
C33_ReturningCyclesNotifyAndCall ==
  /\ phoneCallMade = {}
  /\ \A c \in Cycles :
        /\ cyc[c].pc = "done" /\ index_MetIn(c) =>
              /\ cyc[c].notifications = <<"update">>
              /\ cyc[c].escalation = (IF index_makePhoneCall(config) = "call"
                                      THEN cyc[c].escalation
                                      ELSE index_makePhoneCall(config))
              /\ cyc[c].escalation # "none"
        /\ index_CallAttempted(c) =>
              cyc[c].notifications = <<"update">> /\ cyc[c].delivered \in {"yes", "no"}
        /\ cyc[c].pc = "done" /\ ~cyc[c].result.success =>
              cyc[c].notifications = <<"error">> /\ cyc[c].escalation = "none"
        /\ cyc[c].pc = "done" /\ cyc[c].result.success /\ ~index_MetIn(c) =>
              cyc[c].notifications = <<>> /\ cyc[c].escalation = "none"

\* a cycle ends in an exception only when MOVIE_NAME is set and a film name of the
\* listing has no string form
C33_OnlyUnprintableNamesThrow ==
  \A c \in Cycles :
     cyc[c].pc \in {"threw", "crashed"} =>
        /\ index_MetIn(c)
        /\ config.targetMovie # Null
        /\ index_filterThrows(index_getAllFilmNames(index_getMovies(cyc[c].result.data)))

\* no dedup: a cycle placed the call, and a later cycle with the same body
\* notified and placed it again
C33_RepeatedCall ==
  \E c, d \in Cycles :
     /\ c < d /\ c \notin cyc[d].inFlightAtStart
     /\ cyc[c].escalation = "made" /\ cyc[d].escalation = "made"
     /\ cyc[d].result = cyc[c].result
     /\ cyc[d].notifications = <<"update">>

====
